---- MODULE Spec2Model ----
(***************************************************************************)
(* Live-sync subsystem of the message-archive backend: the archive files,  *)
(* the file watcher (event source, poll source, broadcast loop), the       *)
(* broadcast hub and the WebSocket sessions, plus the paginated listing    *)
(* operations of the query engine.                                         *)
(***************************************************************************)
EXTENDS Integers, Sequences, FiniteSets, TLC

\* ------------------------------------------------------------------ bounds
MaxGuidLen == 5      \* longest association GUID fed to the normalizer
MaxMsgs == 4         \* most messages handed to the chunker
MaxPayload == 4      \* longest enumerated payload of a well-formed blob
MaxBody == 3         \* longest enumerated text after a length encoding
MaxPlain == 7        \* longest enumerated blob without class-name marker
NumChats == 3        \* chat rows an archive may hold (ROWIDs 1..NumChats)
MaxIds == 2          \* longest id list of a by-ids request
MaxQueryLen == 2     \* longest search query
MaxWrites == 2
MaxTicks == 2
OrderTicks == 3
LagExtra == 2
BurstEvents == 3
MaxBatches == 2
MaxClockMs == 100
TimeStepMs == 100
MaxLimit == 3
MaxOffset == 4
HandoffExtra == 2    \* archive writes made while the handoff is nearly full
MaxBacklog == 3      \* handles waiting for the worker at the start
ResolveStepMs == 2500    \* time that passes in one step of the worker's clock
ResolveMaxMs == 15000    \* latest time of the worker's clock

\* ------------------------------------------------------- program constants
HUB_CAPACITY == 16
HANDOFF_CAPACITY == 16
DEBOUNCE_MS == 200
WS_PAGE_LIMIT == 50
RESOLVE_CAPACITY == 256      \* mpsc::channel::<String>(256)
EMIT_INTERVAL_MS == 5000     \* emit_interval = Duration::from_secs(5)
WS_PAGE_OFFSET == 0

Sessions == {"s1", "s2"}
ChatIds == {7, 42}

\* Option<T>: None is the empty set, Some(x) is {x}.
None == {}
Some(x) == {x}
IsSome(o) == o # {}
Unwrap(o) == CHOOSE x \in o : TRUE

Min(a, b) == IF a <= b THEN a ELSE b
Max(a, b) == IF a >= b THEN a ELSE b

\* ------------------------------------------------------------ query engine
\* SQLite's LIMIT/OFFSET over an ordered result: a negative limit means no
\* limit, a negative offset means 0.
SqlLimitOffset(rows, limit, offset) ==
    LET off == Max(offset, 0)
        lim == IF limit < 0 THEN Len(rows) ELSE limit
        lo  == off + 1
        hi  == Min(off + lim, Len(rows))
    IN  IF lo > hi THEN <<>> ELSE SubSeq(rows, lo, hi)

Reverse(s) == [i \in 1..Len(s) |-> s[Len(s) + 1 - i]]

\* The plain messages of a chat holding n of them, newest first (ROWIDs n..1).
NewestFirst(n) == [i \in 1..n |-> n + 1 - i]

HasMoreLe(offset, returned, total) == offset + returned <= total
HasMore(offset, returned, total) == offset + returned < total

\* fetch_messages over a chat with n plain messages.
FetchMessages(n, limit, offset) ==
    LET total  == n
        rows   == SqlLimitOffset(NewestFirst(n), limit, offset)
        result == Reverse(rows)
    IN  [messages |-> result,
         total    |-> total,
         has_more |-> HasMore(offset, Len(result), total)]

\* fetch_chats over a store of n chats (ROWIDs 1..n, most recent first).
FetchChats(n, limit, offset) ==
    LET total     == n
        chat_rows == SqlLimitOffset(NewestFirst(n), limit, offset)
    IN  IF chat_rows = <<>>
        THEN [chats |-> <<>>, total |-> total, has_more |-> FALSE]
        ELSE [chats    |-> chat_rows,
              total    |-> total,
              has_more |-> HasMore(offset, Len(chat_rows), total)]

\* ------------------------------------------------------------------- state
VARIABLES
    store,           \* archive content: chat id -> number of plain messages
    fsClock,         \* file-system modification clock (source of mtimes)
    dbMtime,         \* Option: last-modified time of chat.db
    walMtime,        \* Option: last-modified time of chat.db-wal
    nowMs,           \* wall clock read by chrono::Utc::now()
    watchPc,         \* watcher thread: "init" | "running" | "failed"
    debPending,      \* debouncer: paths with an event not yet delivered
    debTimer,        \* debouncer: ms elapsed since the last event
    fileRx,          \* std mpsc channel debouncer -> watcher thread
    asyncCh,         \* tokio mpsc handoff channel: number of queued signals
    pollPc,          \* poll task: "init" | "first" (asleep before its first
                     \* poll) | "sleep" (asleep before a later poll)
    last_modified,   \* poll task: Option, previously observed value
    hub,             \* broadcast channel: timestamps of all events sent so far
    pc,              \* session: "absent" | "select" | "fetching" | "sending" | "done"
    db_rx,           \* session: number of hub events already taken or skipped
    subscribed_chat, \* session: Option<i64>
    recv_task,       \* session: "none" | "running" | "finished"
    cur,             \* session: the tick being processed and the update built
    sent,            \* session: messages written to the client, in order
    lagged,          \* session: number of events reported dropped by Lagged(n)
    lastControl,     \* session: Option, the last valid control message read
    evBursts,        \* debounced batches delivered that name an archive path
    evSignals,       \* signals the event source placed on the handoff channel
    evEvents,        \* archive events the debouncer has accepted
    pollSignals,     \* signals the poll source placed on the handoff channel
    owed,            \* session: Option, hub length at the last archive write made
                     \* while the session was live and not yet followed by a push
    joinedAt,        \* session: hub length when it subscribed
    resp,            \* last response of a request to the query engine
    fixture,         \* relational content of the archive read by the query engine
    suggestion_cache,    \* recent-message cache: chat id -> hub length at insertion
    suggestion_cache_rx, \* cache clearer: its state and hub cursor
    suggest_task,    \* a suggestion request between its read of the archive
                     \* and its insertion into the cache
    contact_resolve_queue, \* mpsc channel of handles awaiting background lookup
    resolve_worker   \* contact-resolve worker: position, handle, last_emit,
                     \* and whether its last lookup gave a name

archiveVars == <<store, fsClock, dbMtime, walMtime>>
watchVars   == <<watchPc, debPending, debTimer, fileRx, evBursts, evSignals,
                 evEvents>>
pollVars    == <<pollPc, last_modified, pollSignals>>
ghostVars   == <<owed, joinedAt>>
queryVars   == <<fixture>>
cacheVars   == <<suggestion_cache, suggestion_cache_rx, suggest_task>>
resolveVars == <<contact_resolve_queue, resolve_worker>>
sessVars    == <<pc, db_rx, subscribed_chat, recv_task, cur, sent, lagged, lastControl>>
vars == <<store, fsClock, dbMtime, walMtime, nowMs, watchPc, debPending,
          debTimer, fileRx, asyncCh, pollPc, last_modified, pollSignals, hub,
          pc, db_rx,
          subscribed_chat, recv_task, cur, sent, lagged, lastControl, evBursts,
          evSignals, evEvents, owed, joinedAt, resp, fixture,
          suggestion_cache, suggestion_cache_rx, suggest_task,
          contact_resolve_queue,
          resolve_worker>>

Paths == {"chat.db", "chat.db-wal", "Info.plist"}
\* event.path.to_string_lossy().contains("chat.db")
PathContainsChatDb(p) == p \in {"chat.db", "chat.db-wal"}

NoCur == [tick |-> 0, event |-> 0, chat_id |-> None, update |-> None]
NoResp == [op |-> "none"]

\* The archive as the query engine sees it: chat rows, message rows (each
\* joined to one chat), and the contact cache of the context database.
EmptyFixture == [chats |-> {}, messages |-> {}, contacts |-> {}]

\* No suggestion request is under way.
NoSuggest == [pc |-> "idle", chat_id |-> None, read_at |-> 0, version |-> 0]

\* The suggestion cache is created empty and the clearer subscribed to the
\* hub, no event taken yet.
ColdCache ==
    /\ suggestion_cache = [c \in ChatIds |-> None]
    /\ suggestion_cache_rx = [pc |-> "running", next |-> 0]
    /\ suggest_task = NoSuggest

\* The contact-resolve worker as spawned: waiting on an empty queue, its
\* last_emit taken when it started.
WorkerStart == [pc |-> "recv", handle |-> None, last_emit |-> 0, resolved |-> FALSE]
IdleResolver ==
    /\ contact_resolve_queue = <<>>
    /\ resolve_worker = WorkerStart
\* The resolver while the worker is inside a lookup and the handles offered
\* by earlier requests fill the queue.
Backlog(n) == [i \in 1..n |-> <<98>>]
BusyResolver ==
    /\ contact_resolve_queue = Backlog(RESOLVE_CAPACITY)
    /\ resolve_worker = [pc |-> "lookup", handle |-> Some(<<98>>), last_emit |-> 0,
                             resolved |-> FALSE]

\* State after main() has built the channels and spawned the tasks; no client
\* has connected yet.  chat.db exists (the pool was built on it); the WAL
\* sidecar may or may not.
Booted ==
    /\ store = [c \in ChatIds |-> 0]
    /\ fsClock = 0
    /\ dbMtime = Some(0)
    /\ walMtime \in {None, Some(0)}
    /\ nowMs = 0
    /\ watchPc = "init"
    /\ debPending = {}
    /\ debTimer = 0
    /\ fileRx = <<>>
    /\ asyncCh = 0
    /\ pollPc = "init"
    /\ last_modified = None
    /\ hub = <<>>
    /\ pc = [s \in Sessions |-> "absent"]
    /\ db_rx = [s \in Sessions |-> 0]
    /\ subscribed_chat = [s \in Sessions |-> None]
    /\ recv_task = [s \in Sessions |-> "none"]
    /\ cur = [s \in Sessions |-> NoCur]
    /\ sent = [s \in Sessions |-> <<>>]
    /\ lagged = [s \in Sessions |-> 0]
    /\ lastControl = [s \in Sessions |-> None]
    /\ evBursts = 0
    /\ evSignals = 0
    /\ evEvents = 0
    /\ pollSignals = 0
    /\ owed = [s \in Sessions |-> None]
    /\ joinedAt = [s \in Sessions |-> 0]

Init ==
    /\ Booted
    /\ resp = NoResp
    /\ fixture = EmptyFixture
    /\ ColdCache
    /\ IdleResolver

\* The same state with one call of a pure function about to be made.
InitCall(fn, args) ==
    /\ Booted
    /\ resp \in {[op |-> "call", fn |-> fn, arg |-> a] : a \in args}
    /\ fixture = EmptyFixture
    /\ ColdCache
    /\ IdleResolver
Calling(fn) == resp.op = "call" /\ resp.fn = fn

\* ----------------------------------------------------------------- archive
\* The debouncer holds a deadline that has been reached: it fires before
\* anything else happens to it.
DebounceDue == debPending # {} /\ debTimer >= DEBOUNCE_MS

\* The OS reports a change of path p to the debouncer (when the watch is
\* installed and the OS delivers the event at all).
Notify(p, delivered) ==
    IF delivered /\ watchPc = "running"
    THEN /\ ~DebounceDue
         /\ debPending' = debPending \cup {p}
         /\ debTimer' = 0
         /\ evEvents' = IF PathContainsChatDb(p) THEN evEvents + 1 ELSE evEvents
    ELSE UNCHANGED <<debPending, debTimer, evEvents>>

\* The owning application writes a message of chat c: through the WAL
\* sidecar, or into the main file.
ArchiveWriteB(maxWrites, c, file, delivered) ==
    /\ fsClock < maxWrites
    /\ fsClock' = fsClock + 1
    /\ store' = [store EXCEPT ![c] = @ + 1]
    /\ IF file = "chat.db-wal"
       THEN walMtime' = Some(fsClock') /\ UNCHANGED dbMtime
       ELSE dbMtime' = Some(fsClock') /\ UNCHANGED walMtime
    /\ Notify(file, delivered)
    /\ owed' = [s \in Sessions |->
                 IF pc[s] \in {"select", "fetching", "sending"}
                 THEN Some(Len(hub)) ELSE owed[s]]
    /\ UNCHANGED <<nowMs, watchPc, fileRx, evBursts, evSignals, asyncCh,
                   pollVars, hub, sessVars, joinedAt, resp, queryVars, cacheVars, resolveVars>>

\* The last writer closes the archive and SQLite removes the WAL sidecar.
WalRemoved ==
    /\ walMtime # None
    /\ walMtime' = None
    /\ \E delivered \in BOOLEAN : Notify("chat.db-wal", delivered)
    /\ UNCHANGED <<store, fsClock, dbMtime, nowMs, watchPc, fileRx, evBursts,
                   evSignals, asyncCh, pollVars, hub, sessVars, ghostVars, resp, queryVars, cacheVars, resolveVars>>

\* Another file of the watched directory changes.
OtherFileChanged ==
    /\ watchPc = "running"
    /\ "Info.plist" \notin debPending
    /\ Notify("Info.plist", TRUE)
    /\ UNCHANGED <<archiveVars, nowMs, watchPc, fileRx, evBursts, evSignals,
                   asyncCh, pollVars, hub, sessVars, ghostVars, resp, queryVars, cacheVars, resolveVars>>

\* Time passes.
Elapse ==
    /\ ~DebounceDue
    /\ nowMs < MaxClockMs \/ debPending # {}
    /\ nowMs' = Min(nowMs + TimeStepMs, MaxClockMs)
    /\ debTimer' = IF debPending # {}
                   THEN Min(debTimer + TimeStepMs, DEBOUNCE_MS)
                   ELSE debTimer
    /\ UNCHANGED <<archiveVars, watchPc, debPending, fileRx, evBursts, evSignals,
                   evEvents, asyncCh, pollVars, hub, sessVars, ghostVars, resp, queryVars, cacheVars, resolveVars>>

\* ------------------------------------------------------------ event source
\* Setup in which a failure is fatal to the whole watcher: the poll task is
\* stopped as well.
StartWatcherFatal ==
    /\ watchPc = "init"
    /\ \E outcome \in {"ok", "debouncer_err", "watch_err"} :
           IF outcome = "ok"
           THEN watchPc' = "running" /\ UNCHANGED pollPc
           ELSE watchPc' = "failed" /\ pollPc' = "stopped"
    /\ UNCHANGED <<archiveVars, nowMs, debPending, debTimer, fileRx, evBursts,
                   evSignals, evEvents, asyncCh, last_modified, pollSignals, hub,
                   sessVars, ghostVars, resp, queryVars, cacheVars, resolveVars>>

\* The watcher thread creates the debouncer and installs the watch; either
\* call may fail, and then the thread returns.
StartWatcher ==
    /\ watchPc = "init"
    /\ \E outcome \in {"ok", "debouncer_err", "watch_err"} :
           watchPc' = IF outcome = "ok" THEN "running" ELSE "failed"
    /\ UNCHANGED <<archiveVars, nowMs, debPending, debTimer, fileRx, evBursts,
                   evSignals, evEvents, asyncCh, pollVars, hub, sessVars, ghostVars, resp, queryVars, cacheVars, resolveVars>>

\* The debouncer delivers the pending paths as one batch once 200 ms have
\* passed since the last event.
DebounceFire ==
    /\ watchPc = "running"
    /\ DebounceDue
    /\ Len(fileRx) < MaxBatches
    /\ fileRx' = Append(fileRx, debPending)
    /\ debPending' = {}
    /\ debTimer' = 0
    /\ evBursts' = IF \E p \in debPending : PathContainsChatDb(p)
                   THEN evBursts + 1 ELSE evBursts
    /\ UNCHANGED <<archiveVars, nowMs, watchPc, evSignals, evEvents, asyncCh,
                   pollVars, hub, sessVars, ghostVars, resp, queryVars, cacheVars, resolveVars>>

\* What the watcher thread sends for one batch of events.
SignalsForBatchAlways(events) == 1
SignalsForBatchPerEvent(events) ==
    Cardinality({p \in events : PathContainsChatDb(p)})
SignalsForBatch(events) ==
    LET db_changed == \E p \in events : PathContainsChatDb(p)
    IN  IF db_changed THEN 1 ELSE 0

\* The same iteration with try_send in place of blocking_send: a signal that
\* finds the handoff full is discarded.
WatcherLoopTrySend ==
    /\ watchPc = "running"
    /\ fileRx # <<>>
    /\ LET n == SignalsForBatch(Head(fileRx))
       IN  IF asyncCh + n <= HANDOFF_CAPACITY
           THEN asyncCh' = asyncCh + n /\ evSignals' = evSignals + n
           ELSE UNCHANGED <<asyncCh, evSignals>>
    /\ fileRx' = Tail(fileRx)
    /\ UNCHANGED <<archiveVars, nowMs, watchPc, debPending, debTimer, evBursts,
                   evEvents, pollVars, hub, sessVars, ghostVars, resp, queryVars, cacheVars, resolveVars>>

\* One iteration of the watcher thread's loop: take a batch and, if it names
\* the archive, hand one signal over (blocking while the handoff is full).
\* A batch of watch errors is only logged, like a batch that does not name
\* the archive; the channel cannot disconnect while the thread owns the
\* debouncer.
WatcherLoop ==
    /\ watchPc = "running"
    /\ fileRx # <<>>
    /\ LET n == SignalsForBatch(Head(fileRx))
       IN  /\ asyncCh + n <= HANDOFF_CAPACITY
           /\ asyncCh' = asyncCh + n
           /\ evSignals' = evSignals + n
    /\ fileRx' = Tail(fileRx)
    /\ UNCHANGED <<archiveVars, nowMs, watchPc, debPending, debTimer, evBursts,
                   evEvents, pollVars, hub, sessVars, ghostVars, resp, queryVars, cacheVars, resolveVars>>

\* ------------------------------------------------------------- poll source
PollStart ==
    /\ pollPc = "init"
    /\ last_modified' = dbMtime
    /\ pollPc' = "first"
    /\ UNCHANGED <<pollSignals, archiveVars, nowMs, watchVars, asyncCh, hub, sessVars,
                   ghostVars, resp, queryVars, cacheVars, resolveVars>>

\* One iteration of the poll loop, after its 2 s sleep.
PollCheck ==
    /\ pollPc \in {"first", "sleep"}
    /\ pollPc' = "sleep"
    /\ LET current_modified == walMtime
       IN  IF current_modified # last_modified
           THEN /\ IF last_modified # None
                   THEN /\ asyncCh < HANDOFF_CAPACITY
                        /\ asyncCh' = asyncCh + 1
                        /\ pollSignals' = pollSignals + 1
                   ELSE UNCHANGED <<asyncCh, pollSignals>>
                /\ last_modified' = current_modified
           ELSE UNCHANGED <<asyncCh, last_modified, pollSignals>>
    /\ UNCHANGED <<archiveVars, nowMs, watchVars, hub, sessVars,
                   ghostVars, resp, queryVars, cacheVars, resolveVars>>

\* ---------------------------------------------------------- broadcast loop
\* The senders of the handoff channel that are alive: async_tx in the frame
\* of start_file_watcher, which lives as long as the loop below runs; its
\* clone moved into the watcher thread, dropped when the thread returns; the
\* clone moved into the poll task, whose loop has no exit.
HandoffSenders ==
    {"async_tx", "poll_tx"}
        \cup (IF watchPc = "failed" THEN {} ELSE {"async_tx_clone"})
\* async_rx.recv() gives None, which ends the loop and makes
\* start_file_watcher return Ok(()), once no sender is left and the channel
\* is empty.
WatcherReturned == HandoffSenders = {} /\ asyncCh = 0

\* tokio broadcast keeps the last HUB_CAPACITY values; send never waits for a
\* receiver.
HubSendBlocking(len) ==
    \A s \in Sessions :
        pc[s] \in {"select", "fetching", "sending"} => len - db_rx[s] < HUB_CAPACITY
HubSend(len) == TRUE

BroadcastB(maxTicks) ==
    /\ asyncCh > 0
    /\ Len(hub) < maxTicks
    /\ HubSend(Len(hub))
    /\ asyncCh' = asyncCh - 1
    /\ hub' = Append(hub, nowMs)
    /\ UNCHANGED <<archiveVars, nowMs, watchVars, pollVars, sessVars,
                   ghostVars, resp, queryVars, cacheVars, resolveVars>>

Broadcast == BroadcastB(MaxTicks)

\* ---------------------------------------------------------------- sessions
\* JSON values as serde_json sees them.
JMissing == <<"missing">>
JFloat == <<"float">>
JStr(x) == <<"str", x>>
JInt(n) == <<"int", n>>

\* Inbound WebSocket frames: a non-text frame, a text frame that is not JSON,
\* and text frames holding a JSON object.
Frames ==
    {[kind |-> k, valid |-> FALSE, type |-> JMissing, chat_id |-> JMissing] :
        k \in {"binary", "text"}}
    \cup
    {[kind |-> "text", valid |-> TRUE, type |-> t, chat_id |-> JInt(7)] :
        t \in {JMissing, JInt(1), JStr("typing"), JStr("unsubscribe")}}
    \cup
    {[kind |-> "text", valid |-> TRUE, type |-> JStr("unsubscribe"),
      chat_id |-> JMissing]}
    \cup
    {[kind |-> "text", valid |-> TRUE, type |-> JStr("subscribe"), chat_id |-> v] :
        v \in {JMissing, JStr("42"), JFloat} \cup {JInt(c) : c \in ChatIds}}

as_str(v) == IF v[1] = "str" THEN Some(v[2]) ELSE None
\* JInt holds the JSON integers that fit an i64; floats and strings do not
\* convert.
as_i64(v) == IF v[1] = "int" THEN Some(v[2]) ELSE None

\* The body of recv_task's loop for one frame: the new value of the
\* subscription.
OnFrameKeepOnUnsubscribe(sub, f) ==
    IF f.kind = "text" /\ f.valid /\ as_str(f.type) = Some("subscribe")
       /\ as_i64(f.chat_id) # None
    THEN as_i64(f.chat_id) ELSE sub
OnFrame(sub, f) ==
    IF f.kind # "text" THEN sub
    ELSE IF ~f.valid THEN sub
    ELSE LET msg_type == as_str(f.type)
         IN  IF msg_type = None THEN sub
             ELSE IF Unwrap(msg_type) = "subscribe"
                  THEN LET chat_id == as_i64(f.chat_id)
                       IN  IF chat_id # None THEN chat_id ELSE sub
             ELSE IF Unwrap(msg_type) = "unsubscribe" THEN None
             ELSE sub

\* The control message a frame carries, if any (protocol view).
ControlOf(f) ==
    IF f.kind = "text" /\ f.valid /\ f.type = JStr("unsubscribe")
    THEN Some([op |-> "unsubscribe", id |-> 0])
    ELSE IF f.kind = "text" /\ f.valid /\ f.type = JStr("subscribe")
            /\ f.chat_id[1] = "int"
    THEN Some([op |-> "subscribe", id |-> f.chat_id[2]])
    ELSE None

Live(s) == pc[s] \in {"select", "fetching", "sending"}

\* A client connects: handle_socket subscribes to the hub, creates the
\* subscription and spawns recv_task.
Connect(s) ==
    /\ pc[s] = "absent"
    /\ pc' = [pc EXCEPT ![s] = "select"]
    /\ db_rx' = [db_rx EXCEPT ![s] = Len(hub)]
    /\ subscribed_chat' = [subscribed_chat EXCEPT ![s] = None]
    /\ recv_task' = [recv_task EXCEPT ![s] = "running"]
    /\ joinedAt' = [joinedAt EXCEPT ![s] = Len(hub)]
    /\ UNCHANGED <<archiveVars, nowMs, watchVars, asyncCh, pollVars, hub, cur,
                   sent, lagged, lastControl, owed, resp, queryVars, cacheVars, resolveVars>>

\* recv_task reads one inbound frame.
RecvFrame(s, f) ==
    /\ recv_task[s] = "running"
    /\ subscribed_chat' = [subscribed_chat EXCEPT ![s] = OnFrame(@, f)]
    /\ lastControl' = [lastControl EXCEPT
                         ![s] = IF ControlOf(f) # None THEN ControlOf(f) ELSE @]
    /\ UNCHANGED <<archiveVars, nowMs, watchVars, asyncCh, pollVars, hub, pc,
                   db_rx, recv_task, cur, sent, lagged, ghostVars, resp, queryVars, cacheVars, resolveVars>>

\* The inbound stream ends (None) or fails (Some(Err)): recv_task completes.
RecvEnd(s) ==
    /\ recv_task[s] = "running"
    /\ recv_task' = [recv_task EXCEPT ![s] = "finished"]
    /\ UNCHANGED <<archiveVars, nowMs, watchVars, asyncCh, pollVars, hub, pc,
                   db_rx, subscribed_chat, cur, sent, lagged, lastControl,
                   ghostVars, resp, queryVars, cacheVars, resolveVars>>

\* What db_rx.recv() yields for a receiver that has taken or skipped n events.
HubOldest == Max(Len(hub) - HUB_CAPACITY, 0)
HubRecvRewind(n) ==
    IF n < HubOldest THEN [kind |-> "Lagged", n |-> HubOldest - n]
    ELSE IF n < Len(hub) THEN [kind |-> "Ok", n |-> Max(n, 1)]
    ELSE [kind |-> "Pending", n |-> 0]
HubRecv(n) ==
    IF n < HubOldest THEN [kind |-> "Lagged", n |-> HubOldest - n]
    ELSE IF n < Len(hub) THEN [kind |-> "Ok", n |-> n + 1]
    ELSE [kind |-> "Pending", n |-> 0]

DbChanged(timestamp) == [type |-> "db_changed", timestamp |-> timestamp]
ErrorMsg(message) == [type |-> "error", message |-> message]
MessagesUpdate(chat_id, r, timestamp) ==
    [type |-> "messages_update", chat_id |-> chat_id, messages |-> r.messages,
     total |-> r.total, timestamp |-> timestamp]

\* The select! arm for Ok(event): read the subscription, then either start
\* the blocking fetch or build db_changed.
SessionTick(s) ==
    /\ pc[s] = "select"
    /\ HubRecv(db_rx[s]).kind = "Ok"
    /\ LET tick    == HubRecv(db_rx[s]).n
           event   == hub[tick]
           chat_id == subscribed_chat[s]
       IN  /\ db_rx' = [db_rx EXCEPT ![s] = tick]
           /\ IF chat_id # None
              THEN /\ pc' = [pc EXCEPT ![s] = "fetching"]
                   /\ cur' = [cur EXCEPT ![s] = [tick |-> tick, event |-> event,
                                chat_id |-> chat_id, update |-> None]]
              ELSE /\ pc' = [pc EXCEPT ![s] = "sending"]
                   /\ cur' = [cur EXCEPT ![s] = [tick |-> tick, event |-> event,
                                chat_id |-> None, update |-> Some(DbChanged(event))]]
    /\ UNCHANGED <<archiveVars, nowMs, watchVars, asyncCh, pollVars, hub,
                   subscribed_chat, recv_task, sent, lagged, lastControl,
                   ghostVars, resp, queryVars, cacheVars, resolveVars>>

FetchOutcomes == {"ok", "pool_err", "context_db_err", "query_err", "join_err"}

\* The update built from the result of the spawned fetch.
BuildUpdateLatestStamp(chat_id, outcome, event) ==
    IF outcome = "ok"
    THEN MessagesUpdate(chat_id,
             FetchMessages(store[chat_id], WS_PAGE_LIMIT, WS_PAGE_OFFSET), hub[Len(hub)])
    ELSE ErrorMsg(<<"Failed to fetch messages">>)
BuildUpdate(chat_id, outcome, event) ==
    IF outcome = "ok"
    THEN MessagesUpdate(chat_id,
             FetchMessages(store[chat_id], WS_PAGE_LIMIT, WS_PAGE_OFFSET), event)
    ELSE IF outcome = "join_err"
    THEN ErrorMsg(<<"Failed to fetch messages">>)
    ELSE ErrorMsg(<<"Failed to fetch messages: ", "e">>)

\* Where the main loop goes once the fetch has completed: every arm of the
\* match builds an update and falls through to the send.
AfterFetchBreakOnError(outcome) == IF outcome = "ok" THEN "sending" ELSE "done"
AfterFetch(outcome) == "sending"

\* The spawned blocking fetch completes.
FetchDone(s, outcome) ==
    /\ pc[s] = "fetching"
    /\ pc' = [pc EXCEPT ![s] = AfterFetch(outcome)]
    /\ cur' = [cur EXCEPT ![s].update =
                 Some(BuildUpdate(Unwrap(cur[s].chat_id), outcome, cur[s].event))]
    /\ UNCHANGED <<archiveVars, nowMs, watchVars, asyncCh, pollVars, hub, db_rx,
                   subscribed_chat, recv_task, sent, lagged, lastControl,
                   ghostVars, resp, queryVars, cacheVars, resolveVars>>

\* Where the main loop goes after sender.send(): back to the select, or out
\* of the loop when the send failed.
AfterSendIgnoreError(ok) == "select"
AfterSend(ok) == IF ok THEN "select" ELSE "done"

\* sender.send(update) completes.
SendDone(s, ok) ==
    /\ pc[s] = "sending"
    /\ pc' = [pc EXCEPT ![s] = AfterSend(ok)]
    /\ sent' = [sent EXCEPT ![s] =
                  IF ok THEN Append(@, [msg |-> Unwrap(cur[s].update),
                                        tick |-> cur[s].tick])
                  ELSE @]
    /\ cur' = [cur EXCEPT ![s] = NoCur]
    /\ owed' = [owed EXCEPT ![s] =
                  IF ok /\ @ # None /\ cur[s].tick > Unwrap(@) THEN None ELSE @]
    /\ UNCHANGED <<archiveVars, nowMs, watchVars, asyncCh, pollVars, hub, db_rx,
                   subscribed_chat, recv_task, lagged, lastControl, joinedAt, resp, queryVars, cacheVars, resolveVars>>

\* Where the main loop goes after Err(Lagged(n)): it only logs.
AfterLaggedBreak == "done"
AfterLagged == "select"

\* The select! arm for Err(Lagged(n)): log and go round the loop.
SessionLagged(s) ==
    /\ pc[s] = "select"
    /\ HubRecv(db_rx[s]).kind = "Lagged"
    /\ pc' = [pc EXCEPT ![s] = AfterLagged]
    /\ db_rx' = [db_rx EXCEPT ![s] = HubOldest]
    /\ lagged' = [lagged EXCEPT ![s] = @ + HubRecv(db_rx[s]).n]
    /\ UNCHANGED <<archiveVars, nowMs, watchVars, asyncCh, pollVars, hub,
                   subscribed_chat, recv_task, cur, sent, lastControl,
                   ghostVars, resp, queryVars, cacheVars, resolveVars>>

\* AppState owns a Sender of the hub and every session holds AppState: the
\* channel cannot close while a session runs.
HubClosed == FALSE

\* The select! arm for Err(Closed): leave the loop.
SessionClosed(s) ==
    /\ pc[s] = "select"
    /\ HubClosed
    /\ HubRecv(db_rx[s]).kind = "Pending"
    /\ pc' = [pc EXCEPT ![s] = "done"]
    /\ UNCHANGED <<archiveVars, nowMs, watchVars, asyncCh, pollVars, hub, db_rx,
                   subscribed_chat, recv_task, cur, sent, lagged, lastControl,
                   ghostVars, resp, queryVars, cacheVars, resolveVars>>

\* The select! arm for the completed recv_task: leave the loop.
SessionRecvTaskDone(s) ==
    /\ pc[s] = "select"
    /\ recv_task[s] = "finished"
    /\ pc' = [pc EXCEPT ![s] = "done"]
    /\ UNCHANGED <<archiveVars, nowMs, watchVars, asyncCh, pollVars, hub, db_rx,
                   subscribed_chat, recv_task, cur, sent, lagged, lastControl,
                   ghostVars, resp, queryVars, cacheVars, resolveVars>>

\* ---------------------------------------------------------------- HTTP API
\* Chats of the archive: a chat row exists once it holds a message.
ChatCount == Cardinality({c \in ChatIds : store[c] > 0})

\* GET /chats?limit=&offset= : get_chats.
GetChats(limit, offset, outcome) ==
    /\ resp' = IF outcome = "ok"
               THEN [op |-> "chats", status |-> 200, limit |-> limit,
                     offset |-> offset, body |-> FetchChats(ChatCount, limit, offset)]
               ELSE [op |-> "chats", status |-> 500]
    /\ UNCHANGED <<archiveVars, nowMs, watchVars, asyncCh, pollVars, hub,
                   sessVars, ghostVars, queryVars, cacheVars, resolveVars>>

\* GET /chats/:id/messages?limit=&offset= : get_messages.
GetMessages(chat_id, limit, offset, outcome) ==
    /\ resp' = IF outcome = "ok"
               THEN [op |-> "messages", status |-> 200, limit |-> limit,
                     offset |-> offset,
                     body |-> FetchMessages(store[chat_id], limit, offset)]
               ELSE [op |-> "messages", status |-> 500]
    /\ UNCHANGED <<archiveVars, nowMs, watchVars, asyncCh, pollVars, hub,
                   sessVars, ghostVars, queryVars, cacheVars, resolveVars>>

\* ----------------------------------------------------------- specification
\* What one connected client and its session can do.
SessionStep(s) ==
    \/ Connect(s)
    \/ \E f \in Frames : RecvFrame(s, f)
    \/ RecvEnd(s)
    \/ SessionTick(s)
    \/ \E outcome \in FetchOutcomes : FetchDone(s, outcome)
    \/ \E ok \in BOOLEAN : SendDone(s, ok)
    \/ SessionRecvTaskDone(s)

\* One client; the archive is written through its WAL sidecar and the poll
\* source detects it.
Next ==
    \/ ArchiveWriteB(MaxWrites, 42, "chat.db-wal", FALSE)
    \/ Elapse
    \/ PollStart
    \/ PollCheck
    \/ Broadcast
    \/ SessionStep("s1")

Spec == Init /\ [][Next]_vars

\* The scenario of a session subscribed to chat 42 that stays connected while
\* the archive is written.
SubscribeTo42 ==
    [kind |-> "text", valid |-> TRUE, type |-> JStr("subscribe"), chat_id |-> JInt(42)]

NextOrder ==
    \/ ArchiveWriteB(OrderTicks, 42, "chat.db-wal", FALSE)
    \/ PollStart
    \/ PollCheck
    \/ BroadcastB(OrderTicks)
    \/ Connect("s1")
    \/ RecvFrame("s1", SubscribeTo42)
    \/ SessionTick("s1")
    \/ \E outcome \in FetchOutcomes : FetchDone("s1", outcome)
    \/ \E ok \in BOOLEAN : SendDone("s1", ok)

SpecOrder == Init /\ [][NextOrder]_vars

\* The hub after HUB_CAPACITY broadcasts, caused by writes to chat 42, during
\* which session s1, subscribed to chat 7 since before the first of them, has
\* been held in the refetch for the first tick; s2 has not connected yet.
InitLag ==
    /\ store = [c \in ChatIds |-> IF c = 42 THEN HUB_CAPACITY ELSE 0]
    /\ fsClock = HUB_CAPACITY
    /\ dbMtime = Some(0)
    /\ walMtime = Some(HUB_CAPACITY)
    /\ nowMs = 0
    /\ watchPc = "init"
    /\ debPending = {}
    /\ debTimer = 0
    /\ fileRx = <<>>
    /\ asyncCh = 0
    /\ pollPc = "sleep"
    /\ last_modified = Some(HUB_CAPACITY)
    /\ hub = [i \in 1..HUB_CAPACITY |-> 0]
    /\ pc = [s \in Sessions |-> IF s = "s1" THEN "fetching" ELSE "absent"]
    /\ db_rx = [s \in Sessions |-> IF s = "s1" THEN 1 ELSE 0]
    /\ subscribed_chat = [s \in Sessions |-> IF s = "s1" THEN Some(7) ELSE None]
    /\ recv_task = [s \in Sessions |-> IF s = "s1" THEN "running" ELSE "none"]
    /\ cur = [s \in Sessions |->
                IF s = "s1"
                THEN [tick |-> 1, event |-> 0, chat_id |-> Some(7), update |-> None]
                ELSE NoCur]
    /\ sent = [s \in Sessions |-> <<>>]
    /\ lagged = [s \in Sessions |-> 0]
    /\ lastControl = [s \in Sessions |->
                        IF s = "s1" THEN Some([op |-> "subscribe", id |-> 7])
                        ELSE None]
    /\ evBursts = 0
    /\ evSignals = 0
    /\ evEvents = 0
    /\ pollSignals = HUB_CAPACITY
    /\ owed = [s \in Sessions |-> IF s = "s1" THEN Some(HUB_CAPACITY - 1) ELSE None]
    /\ joinedAt = [s \in Sessions |-> 0]
    /\ resp = NoResp
    /\ fixture = EmptyFixture
    /\ suggestion_cache = [c \in ChatIds |-> None]
    /\ suggestion_cache_rx = [pc |-> "running", next |-> 1]
    /\ suggest_task = NoSuggest
    /\ IdleResolver

NextLag ==
    \/ ArchiveWriteB(HUB_CAPACITY + LagExtra, 42, "chat.db-wal", FALSE)
    \/ PollCheck
    \/ BroadcastB(HUB_CAPACITY + LagExtra)
    \/ Connect("s2")
    \/ \E s \in Sessions : SessionTick(s)
    \/ \E s \in Sessions : FetchDone(s, "ok")
    \/ \E s \in Sessions, ok \in BOOLEAN : SendDone(s, ok)
    \/ \E s \in Sessions : SessionLagged(s)

SpecLag == InitLag /\ [][NextLag]_vars

\* The event source alone: the archive files and another file of the watched
\* directory change, the debouncer batches, the watcher thread signals and the
\* broadcast loop publishes.
NextWatch ==
    \/ StartWatcher
    \/ \E file \in {"chat.db", "chat.db-wal"}, delivered \in BOOLEAN :
           ArchiveWriteB(BurstEvents, 42, file, delivered)
    \/ OtherFileChanged
    \/ Elapse
    \/ DebounceFire
    \/ WatcherLoop
    \/ BroadcastB(BurstEvents)

SpecWatch == Init /\ [][NextWatch]_vars

\* The listing endpoints over a growing archive.
NextPage ==
    \/ \E c \in ChatIds : ArchiveWriteB(MaxWrites, c, "chat.db-wal", FALSE)
    \/ \E limit \in 0..MaxLimit, offset \in 0..MaxOffset, outcome \in {"ok", "error"} :
           GetChats(limit, offset, outcome)
    \/ \E c \in ChatIds, limit \in 0..MaxLimit, offset \in 0..MaxOffset,
          outcome \in {"ok", "error"} :
           GetMessages(c, limit, offset, outcome)

SpecPage == Init /\ [][NextPage]_vars

\* The whole pipeline under fair scheduling: every thread and task that can
\* take a step eventually takes it.  FairTicks is more than the signals that
\* MaxWrites writes can cause, so the broadcast loop is never held back.
FairTicks == 2 * MaxWrites + 2

NextFair ==
    \/ \E delivered \in BOOLEAN :
           ArchiveWriteB(MaxWrites, 42, "chat.db-wal", delivered)
    \/ Elapse
    \/ StartWatcher
    \/ DebounceFire
    \/ WatcherLoop
    \/ PollStart
    \/ PollCheck
    \/ BroadcastB(FairTicks)
    \/ Connect("s1")
    \/ RecvFrame("s1", SubscribeTo42)
    \/ SessionTick("s1")
    \/ \E outcome \in FetchOutcomes : FetchDone("s1", outcome)
    \/ \E ok \in BOOLEAN : SendDone("s1", ok)

Fairness ==
    /\ WF_vars(Elapse)
    /\ WF_vars(StartWatcher)
    /\ WF_vars(DebounceFire)
    /\ WF_vars(WatcherLoop)
    /\ WF_vars(PollStart)
    /\ WF_vars(PollCheck)
    /\ WF_vars(BroadcastB(FairTicks))
    /\ WF_vars(SessionTick("s1"))
    /\ WF_vars(\E outcome \in FetchOutcomes : FetchDone("s1", outcome))
    /\ WF_vars(\E ok \in BOOLEAN : SendDone("s1", ok))

SpecFair == Init /\ [][NextFair]_vars /\ Fairness

\* ------------------------------------------------------------------ claims
Last(q) == q[Len(q)]
InFlight(s) == IF pc[s] \in {"fetching", "sending"} THEN 1 ELSE 0
\* Ticks the session has taken from the hub (Ok results of recv).
Dequeued(s) == db_rx[s] - joinedAt[s] - lagged[s]
IsFetchError(m) ==
    m.type = "error"
    /\ m.message \in {<<"Failed to fetch messages">>,
                      <<"Failed to fetch messages: ", "e">>}

\* C2: for every tick a session dequeues, the subscription read at that moment
\* decides the one message it sends: Some(id) starts one fetch of
\* listMessages(id, 50, 0) and yields messages_update for that id stamped with
\* the tick's timestamp (or an error message), None starts no fetch and yields
\* db_changed stamped with the tick's timestamp; the message sent is the one
\* built, and one message is sent per dequeued tick.
C2_Dequeue(s) ==
    (pc[s] = "select" /\ pc'[s] \in {"fetching", "sending"}) =>
        LET tick == db_rx[s] + 1
        IN  /\ db_rx'[s] = tick
            /\ cur'[s].tick = tick
            /\ IF subscribed_chat[s] = None
               THEN /\ pc'[s] = "sending"
                    /\ cur'[s].update = Some(DbChanged(hub[tick]))
               ELSE /\ pc'[s] = "fetching"
                    /\ cur'[s].chat_id = subscribed_chat[s]
                    /\ cur'[s].event = hub[tick]
C2_Fetch(s) ==
    (pc[s] = "fetching" /\ pc'[s] # "fetching") =>
        LET id == Unwrap(cur[s].chat_id)
            m  == Unwrap(cur'[s].update)
        IN  /\ pc'[s] = "sending"
            /\ cur'[s].tick = cur[s].tick
            /\ \/ IsFetchError(m)
               \/ m = [type |-> "messages_update", chat_id |-> id,
                       messages |-> FetchMessages(store[id], 50, 0).messages,
                       total |-> store[id], timestamp |-> hub[cur[s].tick]]
C2_Send(s) ==
    /\ (pc[s] = "sending" /\ pc'[s] = "select") =>
           /\ Len(sent'[s]) = Len(sent[s]) + 1
           /\ Last(sent'[s]).msg = Unwrap(cur[s].update)
           /\ Last(sent'[s]).tick = cur[s].tick
    /\ sent'[s] # sent[s] => (pc[s] = "sending" /\ pc'[s] = "select")
C2_OnePerTick ==
    \A s \in Sessions :
        /\ Live(s) => Len(sent[s]) = Dequeued(s) - InFlight(s)
        /\ pc[s] = "done" => Len(sent[s]) \in {Dequeued(s) - 1, Dequeued(s)}
        /\ \A i \in 1..Len(sent[s]) : sent[s][i].tick = joinedAt[s] + i
C2_TickToMessage ==
    /\ [][\A s \in Sessions : C2_Dequeue(s) /\ C2_Fetch(s) /\ C2_Send(s)]_vars
    /\ []C2_OnePerTick
C2_Witness ==
    /\ Len(sent["s1"]) >= 2
    /\ sent["s1"][1].msg.type = "db_changed"
    /\ sent["s1"][2].msg.type = "messages_update"
    /\ sent["s1"][2].msg.total >= 1
    /\ sent["s1"][2].msg.timestamp # sent["s1"][1].msg.timestamp

\* C3: a session handles ticks one at a time and in hub order: the ticks of
\* the messages it has sent are strictly increasing, the tick in flight is
\* newer than all of them, and no tick is fetched or pushed twice, also when
\* further ticks were broadcast while a refetch was running.
C3_Sequential ==
    \A s \in Sessions :
        /\ \A i, j \in 1..Len(sent[s]) : i < j => sent[s][i].tick < sent[s][j].tick
        /\ InFlight(s) = 1 =>
               /\ cur[s].tick = db_rx[s]
               /\ \A i \in 1..Len(sent[s]) : sent[s][i].tick < cur[s].tick
        /\ InFlight(s) = 0 => cur[s] = NoCur
        /\ \A i \in 1..Len(sent[s]) : sent[s][i].tick <= db_rx[s]
C3_Witness ==
    /\ pc["s1"] = "sending"
    /\ Len(sent["s1"]) = 1
    /\ sent["s1"][1].msg.type = "messages_update"
    /\ sent["s1"][1].tick = 1
    /\ cur["s1"].tick = 2
    /\ Unwrap(cur["s1"].update).type = "messages_update"
    /\ db_rx["s1"] = 2
    /\ Len(hub) = 3

\* C5: a failed refetch (pool, context-db, query or join error) makes the
\* session build one error message for that tick and go on to send it; the
\* step neither ends the session nor touches its subscription, and once the
\* error message is written the session is back at its select.
C5_Step(s) ==
    /\ (pc[s] = "fetching" /\ pc'[s] # "fetching") =>
           /\ pc'[s] = "sending"
           /\ cur'[s].update # None
           /\ subscribed_chat'[s] = subscribed_chat[s]
    /\ (pc[s] = "sending" /\ Unwrap(cur[s].update).type = "error"
        /\ Len(sent'[s]) > Len(sent[s])) =>
           /\ pc'[s] = "select"
           /\ sent'[s] = Append(sent[s], Last(sent'[s]))
           /\ IsFetchError(Last(sent'[s]).msg)
           /\ Last(sent'[s]).tick = cur[s].tick
           /\ subscribed_chat'[s] = subscribed_chat[s]
C5_FetchErrorKeepsSession == [][\A s \in Sessions : C5_Step(s)]_vars
C5_Witness ==
    /\ Len(sent["s1"]) >= 2
    /\ sent["s1"][1].msg.type = "error"
    /\ sent["s1"][2].msg.type = "messages_update"
    /\ sent["s1"][2].tick = sent["s1"][1].tick + 1

\* C8: a session's subscription is None until a control message arrives and
\* always equals the effect of the last valid control message read on its own
\* connection (subscribe with an integer chat id: Some(id); unsubscribe:
\* None); no other frame and no other step changes it.
EffectOf(control) ==
    IF control = None THEN None
    ELSE IF Unwrap(control).op = "subscribe" THEN Some(Unwrap(control).id)
    ELSE None
C8_SubscriptionIsLastControl ==
    \A s \in Sessions : subscribed_chat[s] = EffectOf(lastControl[s])
C8_Witness ==
    /\ lastControl["s1"] = Some([op |-> "unsubscribe", id |-> 0])
    /\ Len(sent["s1"]) >= 1
    /\ sent["s1"][1].msg.type = "messages_update"
    /\ pc["s1"] = "sending"

\* C4: once a session's main loop has exited (inbound stream ended, or a push
\* failed) its inbound reader task has stopped too.
C4_ReleasedAfterExit ==
    \A s \in Sessions : pc[s] = "done" => recv_task[s] = "finished"

\* C9: the archive events that reach the debouncer within one debounce window
\* (each less than 200 ms after the one before) make one batch, and the event
\* source emits exactly one signal, hence one broadcast tick, for that batch
\* however many events it holds: signals equal batches, never events.
ArchiveBatchesQueued ==
    Cardinality({i \in 1..Len(fileRx) : \E p \in fileRx[i] : PathContainsChatDb(p)})
ArchivePending == IF \E p \in debPending : PathContainsChatDb(p) THEN 1 ELSE 0
Returned(r) == IF r.op = "chats" THEN Len(r.body.chats) ELSE Len(r.body.messages)
IsPage(r) == r.op \in {"chats", "messages"} /\ r.status = 200
NextPageItems(r) ==
    Len(SqlLimitOffset(NewestFirst(r.body.total), r.limit, r.offset + Returned(r)))
C1_AtLeastOnce ==
    \A s \in Sessions : (owed[s] # None) ~> (owed[s] = None \/ ~Live(s))

\* C6: when the hub receiver reports Lagged(n) the session writes nothing,
\* keeps its subscription, stays in its loop with its cursor at the oldest
\* retained tick, which it then receives normally; it pushes one message per
\* tick it actually received and none for the n dropped ones.  (Closed ends
\* the loop, but the hub cannot close while a session holds AppState.)
C6_LagStep(s) ==
    (pc[s] = "select" /\ HubRecv(db_rx[s]).kind = "Lagged" /\ db_rx'[s] # db_rx[s]) =>
        /\ sent'[s] = sent[s]
        /\ subscribed_chat'[s] = subscribed_chat[s]
        /\ recv_task'[s] = recv_task[s]
        /\ pc'[s] = "select"
        /\ hub' = hub
        /\ lagged'[s] = lagged[s] + (HubOldest - db_rx[s])
        /\ db_rx'[s] = HubOldest
        /\ HubRecv(db_rx'[s]) = [kind |-> "Ok", n |-> HubOldest + 1]
C6_NothingForDropped ==
    \A s \in Sessions :
        /\ Live(s) => Len(sent[s]) = Dequeued(s) - InFlight(s)
        /\ \A i, j \in 1..Len(sent[s]) : i < j => sent[s][i].tick < sent[s][j].tick
        /\ \A i \in 1..Len(sent[s]) : sent[s][i].tick <= db_rx[s]
C7_ProducerFree ==
    (asyncCh > 0 /\ Len(hub) < HUB_CAPACITY + LagExtra) =>
        ENABLED BroadcastB(HUB_CAPACITY + LagExtra)
C7_OthersFree ==
    \A s \in Sessions :
        (pc[s] = "select" /\ db_rx[s] < Len(hub)) =>
            /\ Len(hub) - db_rx[s] <= 16 =>
                   (ENABLED SessionTick(s) /\ ~ENABLED SessionLagged(s))
            /\ Len(hub) - db_rx[s] > 16 =>
                   (ENABLED SessionLagged(s) /\ ~ENABLED SessionTick(s))
C7_EveryTickSeen ==
    \A s \in Sessions :
        lagged[s] = 0 =>
            \A i \in 1..Len(sent[s]) : sent[s][i].tick = joinedAt[s] + i
C7_SlowSessionBlocksNobody ==
    C7_ProducerFree /\ C7_OthersFree /\ C7_EveryTickSeen
C7_Witness ==
    /\ pc["s1"] = "fetching"
    /\ cur["s1"].tick = 1
    /\ Len(hub) = HUB_CAPACITY + 2
    /\ joinedAt["s2"] = HUB_CAPACITY
    /\ Len(sent["s2"]) = 2
    /\ sent["s2"][2].tick = HUB_CAPACITY + 2
    /\ pc["s2"] = "select"

\* ------------------------------------------------------------------ strings
\* Text is a sequence of one-character strings.
liveVars == <<archiveVars, nowMs, watchVars, asyncCh, pollVars, hub, sessVars,
              ghostVars>>

RECURSIVE SeqsUpTo(_, _)
\* every sequence over S of length at most n
SeqsUpTo(S, n) ==
    IF n = 0 THEN {<<>>}
    ELSE LET shorter == SeqsUpTo(S, n - 1)
         IN  shorter \cup {Append(q, x) : q \in {r \in shorter : Len(r) = n - 1}, x \in S}

\* str::starts_with
starts_with(s, prefix) ==
    /\ Len(s) >= Len(prefix)
    /\ SubSeq(s, 1, Len(prefix)) = prefix
\* str::find / str::rfind of one character: its first / last position, 0 for None
find(s, ch) ==
    IF \E i \in 1..Len(s) : s[i] = ch
    THEN CHOOSE i \in 1..Len(s) : s[i] = ch /\ \A j \in 1..(i - 1) : s[j] # ch
    ELSE 0
rfind(s, ch) ==
    IF \E i \in 1..Len(s) : s[i] = ch
    THEN CHOOSE i \in 1..Len(s) : s[i] = ch /\ \A j \in (i + 1)..Len(s) : s[j] # ch
    ELSE 0
\* &s[from..], with from counted from 1
SliceFrom(s, from) == SubSeq(s, from, Len(s))

\* ------------------------------------------------- association GUID resolver
BP_PREFIX == <<"b", "p", ":">>

\* The same function cutting at the first '/' instead of the last.
normalize_reaction_guidFirstSlash(guid) ==
    LET pos == find(guid, "/")
    IN  IF pos # 0 THEN SliceFrom(guid, pos + 1)
        ELSE IF starts_with(guid, BP_PREFIX) THEN SliceFrom(guid, Len(BP_PREFIX) + 1)
        ELSE guid
\* normalize_reaction_guid: "p:0/GUID" and "bp:GUID" become "GUID".
normalize_reaction_guid(guid) ==
    LET pos == rfind(guid, "/")
    IN  IF pos # 0 THEN SliceFrom(guid, pos + 1)
        ELSE IF starts_with(guid, BP_PREFIX) THEN SliceFrom(guid, Len(BP_PREFIX) + 1)
        ELSE guid

GuidChars == {"p", "b", ":", "0", "/", "G"}
Guids == SeqsUpTo(GuidChars, MaxGuidLen)

\* A reaction row's associated_message_guid is normalized (fetch_original_texts).
NormalizeGuid ==
    /\ Calling("normalize_reaction_guid")
    /\ resp' = [op |-> "normalize", guid |-> resp.arg,
                out |-> normalize_reaction_guid(resp.arg)]
    /\ UNCHANGED <<liveVars, queryVars, cacheVars, resolveVars>>

NextGuid == NormalizeGuid
SpecGuid == InitCall("normalize_reaction_guid", Guids) /\ [][NextGuid]_vars

\* A GUID without wrapper: no '/' and no leading "bp:".
BareGuid(g) == rfind(g, "/") = 0 /\ ~starts_with(g, BP_PREFIX)

\* resp.guid = wrapper \o G with G bare  =>  resp.out = G
C16_Unwraps(wrapper) ==
    LET G == SliceFrom(resp.guid, Len(wrapper) + 1)
    IN  (starts_with(resp.guid, wrapper) /\ BareGuid(G)) => resp.out = G

\* C16 as stated: normalize(normalize(g)) = normalize(g) for every string g;
\* a bare GUID is returned unchanged; "p:0/G" and "bp:G" normalize to G.
C16_IdempotentEverywhere ==
    resp.op = "normalize" =>
        /\ normalize_reaction_guid(resp.out) = resp.out
        /\ BareGuid(resp.guid) => resp.out = resp.guid
        /\ C16_Unwraps(<<"p", ":", "0", "/">>)
        /\ C16_Unwraps(BP_PREFIX)
\* C16 amended: the result never contains '/'; normalizing it again changes
\* nothing unless the result itself begins with "bp:" (a wrapper nested in
\* another); a bare GUID is returned unchanged; "p:0/G" and "bp:G" with G
\* bare normalize to G.
C16_IdempotentOnBare ==
    resp.op = "normalize" =>
        /\ rfind(resp.out, "/") = 0
        /\ ~starts_with(resp.out, BP_PREFIX) =>
               normalize_reaction_guid(resp.out) = resp.out
        /\ starts_with(resp.out, BP_PREFIX) =>
               normalize_reaction_guid(resp.out) = SliceFrom(resp.out, 4)
        /\ BareGuid(resp.guid) => resp.out = resp.guid
        /\ C16_Unwraps(<<"p", ":", "0", "/">>)
        /\ C16_Unwraps(BP_PREFIX)
C16_Witness ==
    /\ resp.op = "normalize"
    /\ resp.guid = <<"p", ":", "0", "/", "G">>
    /\ resp.out = <<"G">>

\* ------------------------------------------------------------------ chunker
\* msg.text.len() + 50: "Include overhead for formatting"
CHUNK_OVERHEAD == 50

\* A text of n bytes.
Text(n) == [i \in 1..n |-> "x"]
TextLens == {0, 10, 60}
MaxCharsChoices == {0, 50, 100, 120, 200}

\* MessageForExtraction; the timestamp tells the messages of one input apart.
MessagesOf(lens) == [i \in 1..Len(lens) |-> [text |-> Text(lens[i]), timestamp |-> i]]
ChunkInputs ==
    {[messages |-> MessagesOf(lens), max_chars |-> mc] :
        lens \in SeqsUpTo(TextLens, MaxMsgs), mc \in MaxCharsChoices}

msg_size(msg) == Len(msg.text) + CHUNK_OVERHEAD

\* One iteration of the for loop over st = (chunks, current_chunk, current_size),
\* closing the current chunk whenever the message does not fit, empty or not.
ChunkStepNoEmptyCheck(st, msg, max_chars) ==
    LET closing == st.current_size + msg_size(msg) > max_chars
        opened  == IF closing
                   THEN [chunks |-> Append(st.chunks, st.current_chunk),
                         current_chunk |-> <<>>, current_size |-> 0]
                   ELSE st
    IN  [chunks |-> opened.chunks,
         current_chunk |-> Append(opened.current_chunk, msg),
         current_size |-> opened.current_size + msg_size(msg)]
\* One iteration of the for loop over st = (chunks, current_chunk, current_size).
ChunkStep(st, msg, max_chars) ==
    LET closing == st.current_size + msg_size(msg) > max_chars
                   /\ st.current_chunk # <<>>
        opened  == IF closing
                   THEN [chunks |-> Append(st.chunks, st.current_chunk),
                         current_chunk |-> <<>>, current_size |-> 0]
                   ELSE st
    IN  [chunks |-> opened.chunks,
         current_chunk |-> Append(opened.current_chunk, msg),
         current_size |-> opened.current_size + msg_size(msg)]

RECURSIVE ChunkLoop(_, _, _)
\* the loop state after the first n messages
ChunkLoop(messages, n, max_chars) ==
    IF n = 0 THEN [chunks |-> <<>>, current_chunk |-> <<>>, current_size |-> 0]
    ELSE ChunkStep(ChunkLoop(messages, n - 1, max_chars), messages[n], max_chars)

chunk_messages(messages, max_chars) ==
    LET st == ChunkLoop(messages, Len(messages), max_chars)
    IN  IF st.current_chunk # <<>> THEN Append(st.chunks, st.current_chunk)
        ELSE st.chunks

\* get_context's extraction splits the filtered messages into chunks.
ChunkMessages ==
    /\ Calling("chunk_messages")
    /\ resp' = [op |-> "chunk", messages |-> resp.arg.messages,
                max_chars |-> resp.arg.max_chars,
                chunks |-> chunk_messages(resp.arg.messages, resp.arg.max_chars)]
    /\ UNCHANGED <<liveVars, queryVars, cacheVars, resolveVars>>

NextChunk == ChunkMessages
SpecChunk == InitCall("chunk_messages", ChunkInputs) /\ [][NextChunk]_vars

RECURSIVE Flatten(_)
Flatten(seqs) == IF seqs = <<>> THEN <<>> ELSE Head(seqs) \o Flatten(Tail(seqs))
RECURSIVE SumSizes(_)
SumSizes(chunk) ==
    IF chunk = <<>> THEN 0 ELSE Len(Head(chunk).text) + 50 + SumSizes(Tail(chunk))

\* C20: the chunks, concatenated in order, are the input sequence (every
\* message in exactly one chunk, order kept); no chunk is empty; a chunk
\* whose size (sum of text length + 50 over its messages) exceeds max_chars
\* holds a single message.
C20_ChunksPartitionInput ==
    resp.op = "chunk" =>
        /\ Flatten(resp.chunks) = resp.messages
        /\ \A k \in 1..Len(resp.chunks) :
               /\ resp.chunks[k] # <<>>
               /\ SumSizes(resp.chunks[k]) > resp.max_chars => Len(resp.chunks[k]) = 1
C20_Witness ==
    /\ resp.op = "chunk"
    /\ resp.max_chars = 100
    /\ Len(resp.messages) = 4
    /\ Len(resp.chunks) = 3
    /\ Len(resp.chunks[1]) = 1 /\ SumSizes(resp.chunks[1]) = 110
    /\ Len(resp.chunks[2]) = 2 /\ SumSizes(resp.chunks[2]) = 100
    /\ Len(resp.chunks[3]) = 1

\* ------------------------------------------------------ legacy text decoder
\* A blob is a sequence of bytes (0..255); positions are counted from 0 as in
\* the source.
nsstring_marker == <<78, 83, 83, 116, 114, 105, 110, 103>>      \* b"NSString"
PLUS == 43                  \* 0x2B, '+'
LEN_2_BYTES == 129          \* 0x81
LEN_3_BYTES == 130          \* 0x82
SINGLE_BYTE_LIMIT == 128    \* 0x80
PLUS_WINDOW == 20           \* search_start + 20
RUN_WINDOW == 2000          \* i + 2000
MIN_RUN == 5                \* best_end > i + 5
MIN_ALPHA == 3              \* alpha_count > 3
\* "NSString", "NSDictionary", "NSAttributedString", "NSNumber", "NSValue",
\* "NSObject", "NSArray", "streamtyped", "__kIM", "MessagePart", "AttributeName"
plist_keywords ==
    { <<78, 83, 83, 116, 114, 105, 110, 103>>,
      <<78, 83, 68, 105, 99, 116, 105, 111, 110, 97, 114, 121>>,
      <<78, 83, 65, 116, 116, 114, 105, 98, 117, 116, 101, 100, 83, 116, 114, 105, 110, 103>>,
      <<78, 83, 78, 117, 109, 98, 101, 114>>,
      <<78, 83, 86, 97, 108, 117, 101>>,
      <<78, 83, 79, 98, 106, 101, 99, 116>>,
      <<78, 83, 65, 114, 114, 97, 121>>,
      <<115, 116, 114, 101, 97, 109, 116, 121, 112, 101, 100>>,
      <<95, 95, 107, 73, 77>>,
      <<77, 101, 115, 115, 97, 103, 101, 80, 97, 114, 116>>,
      <<65, 116, 116, 114, 105, 98, 117, 116, 101, 78, 97, 109, 101>> }

InBounds(data, i) == 0 <= i /\ i < Len(data)
\* data[i]
ByteAt(data, i) == data[i + 1]
\* &data[from..to]
Slice(data, from, to) == SubSeq(data, from + 1, to)

\* ---- UTF-8 (std::str::from_utf8) and char classes (str::trim, char::is_alphabetic)
Continuation(b) == 128 <= b /\ b <= 191
\* Length in bytes of the well-formed character that starts at data[i], 0 if
\* there is none.
Utf8Len(data, i) ==
    LET n  == Len(data)
        b0 == ByteAt(data, i)
        b1 == ByteAt(data, i + 1)
        b2 == ByteAt(data, i + 2)
        b3 == ByteAt(data, i + 3)
    IN  IF b0 < 128 THEN 1
        ELSE IF 194 <= b0 /\ b0 <= 223
        THEN IF i + 1 < n /\ Continuation(b1) THEN 2 ELSE 0
        ELSE IF 224 <= b0 /\ b0 <= 239
        THEN IF /\ i + 2 < n
                /\ Continuation(b1) /\ Continuation(b2)
                /\ (b0 = 224 => b1 >= 160)
                /\ (b0 = 237 => b1 <= 159)
             THEN 3 ELSE 0
        ELSE IF 240 <= b0 /\ b0 <= 244
        THEN IF /\ i + 3 < n
                /\ Continuation(b1) /\ Continuation(b2) /\ Continuation(b3)
                /\ (b0 = 240 => b1 >= 144)
                /\ (b0 = 244 => b1 <= 143)
             THEN 4 ELSE 0
        ELSE 0
\* The scalar value of the well-formed character of k bytes at data[i].
CodePoint(data, i, k) ==
    IF k = 1 THEN ByteAt(data, i)
    ELSE IF k = 2 THEN (ByteAt(data, i) - 192) * 64 + (ByteAt(data, i + 1) - 128)
    ELSE IF k = 3 THEN (ByteAt(data, i) - 224) * 4096 + (ByteAt(data, i + 1) - 128) * 64
                       + (ByteAt(data, i + 2) - 128)
    ELSE (ByteAt(data, i) - 240) * 262144 + (ByteAt(data, i + 1) - 128) * 4096
         + (ByteAt(data, i + 2) - 128) * 64 + (ByteAt(data, i + 3) - 128)

RECURSIVE Utf8Chars(_, _)
\* The characters of data[i..], each with its length in bytes; an ill-formed
\* position ends the sequence with a character of length 0.
Utf8Chars(data, i) ==
    IF i >= Len(data) THEN <<>>
    ELSE LET k == Utf8Len(data, i)
         IN  IF k = 0 THEN <<[cp |-> -1, len |-> 0]>>
             ELSE <<[cp |-> CodePoint(data, i, k), len |-> k]>> \o Utf8Chars(data, i + k)
chars(text) == Utf8Chars(text, 0)
\* std::str::from_utf8(bytes).is_ok()
from_utf8_ok(bytes) == \A k \in 1..Len(chars(bytes)) : chars(bytes)[k].len > 0

\* char::is_whitespace (Unicode White_Space)
is_whitespace(cp) ==
    \/ cp \in {9, 10, 11, 12, 13, 32, 133, 160, 5760, 8232, 8233, 8239, 8287, 12288}
    \/ (8192 <= cp /\ cp <= 8202)
\* char::is_alphabetic, for the scalar values below U+0100 (no blob drawn
\* here holds a character above that)
is_alphabetic(cp) ==
    \/ (65 <= cp /\ cp <= 90) \/ (97 <= cp /\ cp <= 122)
    \/ cp \in {170, 181, 186}
    \/ (192 <= cp /\ cp <= 214) \/ (216 <= cp /\ cp <= 246) \/ (248 <= cp /\ cp <= 255)

RECURSIVE LeadingWhite(_, _)
\* bytes taken by the whitespace characters at the front of cs[k..]
LeadingWhite(cs, k) ==
    IF k > Len(cs) \/ ~is_whitespace(cs[k].cp) THEN 0
    ELSE cs[k].len + LeadingWhite(cs, k + 1)
RECURSIVE TrailingWhite(_, _)
\* bytes taken by the whitespace characters at the back of cs[1..k]
TrailingWhite(cs, k) ==
    IF k < 1 \/ ~is_whitespace(cs[k].cp) THEN 0
    ELSE cs[k].len + TrailingWhite(cs, k - 1)
\* str::trim_start: only the front is trimmed.
trim_start(text) == SubSeq(text, LeadingWhite(chars(text), 1) + 1, Len(text))
\* str::trim of a well-formed text
trim(text) ==
    LET cs   == chars(text)
        lead == LeadingWhite(cs, 1)
    IN  IF lead = Len(text) THEN <<>>
        ELSE SubSeq(text, lead + 1, Len(text) - TrailingWhite(cs, Len(cs)))
\* str::contains
contains(text, needle) ==
    \E k \in 0..(Len(text) - Len(needle)) : Slice(text, k, k + Len(needle)) = needle
\* text.chars().filter(|c| c.is_alphabetic()).count()
alpha_count(text) == Cardinality({k \in 1..Len(chars(text)) : is_alphabetic(chars(text)[k].cp)})

\* ---- results
DSome(text) == [kind |-> "Some", text |-> text]
DNone == [kind |-> "None", text |-> <<>>]
\* an index or slice outside the blob: the thread panics
DPanic == [kind |-> "panic", text |-> <<>>]
\* a loop that made more iterations than the blob has bytes
DDiverged == [kind |-> "diverged", text |-> <<>>]

\* find_subsequence: position of the first window equal to needle, None if none
find_subsequence(haystack, needle) ==
    IF contains(haystack, needle)
    THEN Some(CHOOSE k \in 0..(Len(haystack) - Len(needle)) :
                 /\ Slice(haystack, k, k + Len(needle)) = needle
                 /\ \A j \in 0..(k - 1) : Slice(haystack, j, j + Len(needle)) # needle)
    ELSE None

\* ---- Strategy 1: after "NSString", '+' then a length then the text
\* The test on '+' without the test that two more bytes exist.
PlusFoundUnguarded(data, i) == ByteAt(data, i) = PLUS
\* data[i] == 0x2B && i + 2 < data.len()
PlusFound(data, i) == ByteAt(data, i) = PLUS /\ i + 2 < Len(data)

\* The (text_start, text_len) read at a '+' found at i, with the positions
\* read to compute it; kind "skip" is the `continue` of an unknown encoding.
LengthEncoding(data, i) ==
    LET length_byte == ByteAt(data, i + 1)
    IN  IF length_byte < SINGLE_BYTE_LIMIT
        THEN [kind |-> "len", reads |-> {}, text_start |-> i + 2, text_len |-> length_byte]
        ELSE IF length_byte = LEN_2_BYTES /\ i + 4 < Len(data)
        THEN [kind |-> "len", reads |-> {i + 2, i + 3}, text_start |-> i + 4,
              text_len |-> ByteAt(data, i + 2) + ByteAt(data, i + 3) * 256]
        ELSE IF length_byte = LEN_3_BYTES /\ i + 5 < Len(data)
        THEN [kind |-> "len", reads |-> {i + 2, i + 3, i + 4}, text_start |-> i + 5,
              text_len |-> ByteAt(data, i + 2) + ByteAt(data, i + 3) * 256
                           + ByteAt(data, i + 4) * 65536]
        ELSE [kind |-> "skip", reads |-> {}, text_start |-> 0, text_len |-> 0]

RECURSIVE StructuredFrom(_, _, _)
\* for i in search_start..search_end, from i on
StructuredFrom(data, i, search_end) ==
    IF i >= search_end THEN DNone
    ELSE IF ~InBounds(data, i) THEN DPanic
    ELSE IF ~PlusFound(data, i) THEN StructuredFrom(data, i + 1, search_end)
    ELSE IF ~InBounds(data, i + 1) THEN DPanic
    ELSE LET enc == LengthEncoding(data, i)
             text == Slice(data, enc.text_start, enc.text_start + enc.text_len)
         IN  IF enc.kind = "skip" THEN StructuredFrom(data, i + 1, search_end)
             ELSE IF \E r \in enc.reads : ~InBounds(data, r) THEN DPanic
             ELSE IF /\ enc.text_start + enc.text_len <= Len(data)
                     /\ from_utf8_ok(text)
                     /\ trim(text) # <<>>
             THEN DSome(trim(text))
             ELSE StructuredFrom(data, i + 1, search_end)

\* Strategy 1 as a whole: None when the marker is absent or no text follows it.
StructuredTier(data) ==
    LET nsstring_pos == find_subsequence(data, nsstring_marker)
        search_start == Unwrap(nsstring_pos) + Len(nsstring_marker)
        search_end   == Min(search_start + PLUS_WINDOW, Len(data))
    IN  IF IsSome(nsstring_pos) THEN StructuredFrom(data, search_start, search_end)
        ELSE DNone

\* ---- Strategy 2: the best-scoring clean run of well-formed text
RECURSIVE BestEnd(_, _, _, _)
\* for end in i + 1..=data.len().min(i + 2000): the last end reached before
\* the first slice data[i..end] that is not well-formed
BestEnd(data, i, end, best_end) ==
    IF end > Min(Len(data), i + RUN_WINDOW) THEN best_end
    ELSE IF from_utf8_ok(Slice(data, i, end)) THEN BestEnd(data, i, end + 1, end)
    ELSE best_end

score(text) == alpha_count(text) * 2 + Len(text)
is_mostly_printable(text) ==
    \A k \in 1..Len(chars(text)) :
        chars(text)[k].cp >= 32 \/ chars(text)[k].cp = 10 \/ chars(text)[k].cp = 9
\* "looks like real message content"
LooksLikeContent(trimmed) ==
    /\ ~\E kw \in plist_keywords : contains(trimmed, kw)
    /\ alpha_count(trimmed) > MIN_ALPHA
    /\ is_mostly_printable(trimmed)

RECURSIVE FallbackFrom(_, _, _, _)
\* while i < data.len(), from i on with the best text so far; fuel counts the
\* iterations still allowed (the blob's length at the start)
FallbackFrom(data, i, best_text, fuel) ==
    IF i >= Len(data)
    THEN IF best_text # <<>> THEN DSome(best_text) ELSE DNone
    ELSE IF fuel = 0 THEN DDiverged
    ELSE LET best_end == BestEnd(data, i, i + 1, i)
             trimmed  == trim(Slice(data, i, best_end))
         IN  IF best_end > i + MIN_RUN
             THEN FallbackFrom(data, best_end,
                               IF LooksLikeContent(trimmed) /\ score(trimmed) > score(best_text)
                               THEN trimmed ELSE best_text,
                               fuel - 1)
             ELSE FallbackFrom(data, i + 1, best_text, fuel - 1)

FallbackTier(data) == FallbackFrom(data, 0, <<>>, Len(data))

extract_text_from_attributed_body(data) ==
    LET structured == StructuredTier(data)
    IN  IF structured.kind # "None" THEN structured ELSE FallbackTier(data)

\* ---- blobs fed to the decoder
\* ' ', '+', 'a', and the two-byte characters U+00A0 (C2 A0, no-break space)
\* and U+00E0 (C3 A0, a letter)
PayloadBytes == {32, 43, 97, 160, 194, 195}
Payloads ==
    {pl \in SeqsUpTo(PayloadBytes, MaxPayload) : pl # <<>> /\ from_utf8_ok(pl)}
    \cup {[k \in 1..127 |-> 97],
          [k \in 1..127 |-> IF k \in {1, 127} THEN 32 ELSE 97],
          [k \in 1..43 |-> 32]}
\* marker + 0x2B + byte(n) + payload
WellFormed(payload) == nsstring_marker \o <<PLUS, Len(payload)>> \o payload
WellFormedBlobs == {WellFormed(pl) : pl \in Payloads}

\* Blobs holding the marker, then possibly a byte, '+', a length encoding and
\* a text, cut at every point after the marker.
LengthEncodings ==
    {<<n>> : n \in {0, 1, 2, 3, 128, 131}}
    \cup {<<LEN_2_BYTES, lo, hi>> : lo \in {1, 3}, hi \in {0, 1}}
    \cup {<<LEN_3_BYTES, lo, 0, hi>> : lo \in {2, 3}, hi \in {0, 1}}
Bodies == SeqsUpTo({32, 43, 97, 160, 195}, MaxBody)
MarkedTails ==
    {pre \o <<PLUS>> \o enc \o body :
        pre \in {<<>>, <<1>>}, enc \in LengthEncodings, body \in Bodies}
Truncations(S) == {SubSeq(s, 1, Min(n, Len(s))) : s \in S, n \in 0..(MaxBody + 6)}
MarkedBlobs ==
    {pre \o nsstring_marker \o tail :
        pre \in {<<>>, <<97>>}, tail \in Truncations(MarkedTails)}

\* Blobs without the marker: 'a', ' ', a control byte and a byte that is never
\* well-formed; and texts around the other keywords.
PlainBlobs == SeqsUpTo({97, 32, 1, 255}, MaxPlain)
Letters(n) == [k \in 1..n |-> 97]
KeywordBlobs ==
    {kw \o Letters(4) : kw \in plist_keywords}
    \cup {Letters(6) \o <<255>> \o kw \o <<255>> \o Letters(7) : kw \in plist_keywords}
    \cup {Letters(7) \o <<255>> \o Letters(6), Letters(6) \o <<255>> \o Letters(7),
          Letters(3) \o <<195, 160>> \o Letters(6)}

Blobs == WellFormedBlobs \cup MarkedBlobs \cup PlainBlobs \cup KeywordBlobs

\* A message row without text has its attributedBody decoded (fetch_messages).
DecodeBody ==
    /\ Calling("extract_text_from_attributed_body")
    /\ resp' = [op |-> "decode", data |-> resp.arg,
                out |-> extract_text_from_attributed_body(resp.arg)]
    /\ UNCHANGED <<liveVars, queryVars, cacheVars, resolveVars>>

NextDecode == DecodeBody
SpecDecode == InitCall("extract_text_from_attributed_body", Blobs) /\ [][NextDecode]_vars

\* The payload of a blob of the form marker + 0x2B + byte(n) + payload with
\* 1 <= n <= 127 and a well-formed payload of n bytes; <<>> for other blobs.
PayloadOf(data) ==
    LET payload == Slice(data, 10, Len(data))
    IN  IF /\ Len(data) >= 11
           /\ Len(data) <= 137
           /\ Slice(data, 0, 10) = nsstring_marker \o <<43, Len(data) - 10>>
           /\ from_utf8_ok(payload)
        THEN payload ELSE <<>>
IsWhiteChar(c) == is_whitespace(c.cp)

\* C17 as stated: decoding marker + 0x2B + byte(n) + payload returns exactly
\* the payload, whatever characters it starts or ends with.
C17_PayloadByteForByte ==
    (resp.op = "decode" /\ PayloadOf(resp.data) # <<>>) =>
        resp.out = DSome(PayloadOf(resp.data))
\* C17 amended: decoding such a blob returns the payload without the
\* whitespace characters at its start and end, so the payload itself exactly
\* when it neither starts nor ends with whitespace; a payload made of
\* whitespace only yields no text.
C17_PayloadTrimmed ==
    (resp.op = "decode" /\ PayloadOf(resp.data) # <<>>) =>
        LET payload == PayloadOf(resp.data)
            cs      == chars(payload)
            first   == CHOOSE k \in 1..Len(cs) :
                           ~IsWhiteChar(cs[k]) /\ \A j \in 1..(k - 1) : IsWhiteChar(cs[j])
            last    == CHOOSE k \in 1..Len(cs) :
                           ~IsWhiteChar(cs[k]) /\ \A j \in (k + 1)..Len(cs) : IsWhiteChar(cs[j])
        IN  IF \A k \in 1..Len(cs) : IsWhiteChar(cs[k])
            THEN resp.out = DNone
            ELSE /\ resp.out.kind = "Some"
                 /\ chars(resp.out.text) = SubSeq(cs, first, last)
                 /\ (first = 1 /\ last = Len(cs)) => resp.out.text = payload
C17_Witness ==
    /\ resp.op = "decode"
    /\ PayloadOf(resp.data) = <<32, 97, 194, 160>>
    /\ resp.out = DSome(<<97>>)

\* C18: for every blob the decoder ends with Some or None, never reading
\* outside the blob; for a blob without the marker the first strategy gives
\* None and the result is the second strategy's.
C18_TotalAndInBounds ==
    resp.op = "decode" =>
        /\ resp.out.kind \in {"Some", "None"}
        /\ resp.out.kind = "Some" => resp.out.text # <<>>
        /\ ~contains(resp.data, nsstring_marker) =>
               /\ StructuredTier(resp.data) = DNone
               /\ resp.out = FallbackTier(resp.data)
C18_Witness ==
    /\ resp.op = "decode"
    /\ resp.data = nsstring_marker \o <<43>>
    /\ resp.out = DNone

\* ------------------------------------------------------- archive content
\* Text in the archive is a sequence of bytes, as in the decoder above.
\* "Ab", "c", "a_", "b", "Al", ""
ChatRow(id) ==
    IF id = 1 THEN [ROWID |-> 1, display_name |-> Some(<<65, 98>>),
                    chat_identifier |-> Some(<<99>>), handles |-> {<<99>>}]
    ELSE IF id = 2 THEN [ROWID |-> 2, display_name |-> None,
                         chat_identifier |-> Some(<<97, 95>>), handles |-> {<<98>>, <<99>>}]
    ELSE IF id = 3 THEN [ROWID |-> 3, display_name |-> Some(<<>>),
                         chat_identifier |-> None, handles |-> {}]
    ELSE [ROWID |-> id, display_name |-> None, chat_identifier |-> None, handles |-> {}]

\* Message rows that may be present, each joined to one chat.  Dates are
\* nanoseconds since 2001-01-01; 1000000 and 1999999 fall in the same
\* millisecond, 2000000000 two seconds later.  associated_message_type: NULL, 0, a tapback, a removal.
MessageRows ==
    {[ROWID |-> 1, chat_id |-> 1, date |-> 1000000, associated_message_type |-> Some(0)],
     [ROWID |-> 2, chat_id |-> 1, date |-> 1999999, associated_message_type |-> None],
     [ROWID |-> 3, chat_id |-> 1, date |-> 1999999, associated_message_type |-> Some(2000)],
     [ROWID |-> 4, chat_id |-> 2, date |-> 1999999, associated_message_type |-> Some(0)],
     [ROWID |-> 5, chat_id |-> 2, date |-> 3000000, associated_message_type |-> Some(3001)],
     [ROWID |-> 6, chat_id |-> 1, date |-> 2000000000, associated_message_type |-> Some(0)]}
\* contact_context rows of the context database: handle "c" is named "Al"
ContactRows == {[handle |-> <<99>>, display_name |-> <<65, 108>>]}

Fixtures ==
    {[chats    |-> {ChatRow(id) : id \in ids},
      messages |-> {m \in ms : m.chat_id \in ids},
      contacts |-> ContactRows] :
        ids \in SUBSET (1..NumChats), ms \in SUBSET MessageRows}

\* The server started on an archive with some content.
InitQuery ==
    /\ Booted
    /\ resp = NoResp
    /\ fixture \in Fixtures
    /\ ColdCache
    /\ BusyResolver

\* every arrangement of the set S in a sequence
Perms(S) ==
    {f \in [1..Cardinality(S) -> S] : \A i, j \in 1..Cardinality(S) : f[i] = f[j] => i = j}
Range(s) == {s[i] : i \in 1..Len(s)}

\* ---------------------------------------------------------- chat listing
NANOS_PER_MS == 1000000
\* 978307200000 ms from 1970 to 2001, held in two limbs of six decimal digits
LIMB == 1000000
APPLE_EPOCH_MS_HI == 978307
APPLE_EPOCH_MS_LO == 200000
\* data.date / 1_000_000 + 978307200000, for date >= 0
time_ms(date) ==
    LET lo == date \div NANOS_PER_MS + APPLE_EPOCH_MS_LO
    IN  [hi |-> APPLE_EPOCH_MS_HI + lo \div LIMB, lo |-> lo % LIMB]
\* a <= b on such values
TimeLe(a, b) == a.hi < b.hi \/ (a.hi = b.hi /\ a.lo <= b.lo)

\* rows of message JOIN chat_message_join for one chat
MessagesOfChat(fx, chat_id) == {m \in fx.messages : m.chat_id = chat_id}
\* MAX(m.date) of a chat's group: NULL when no message is joined
MaxDate(fx, chat_id) ==
    LET ms == MessagesOfChat(fx, chat_id)
    IN  IF ms = {} THEN None
        ELSE Some(CHOOSE d \in {m.date : m \in ms} : \A m \in ms : m.date <= d)
\* ORDER BY x ASC: the opposite order (NULL first).
OrderAsc(a, b) == a = None \/ (b # None /\ Unwrap(a) <= Unwrap(b))
\* ORDER BY x DESC over nullable x: a may stand before b (NULL sorts last)
OrderDesc(a, b) == b = None \/ (a # None /\ Unwrap(a) >= Unwrap(b))
\* The result orders ORDER BY MAX(m.date) DESC allows: rows with equal keys
\* may come in any order, the statement names no further key.
ChatOrders(fx) ==
    {o \in Perms({c.ROWID : c \in fx.chats}) :
        \A i, j \in 1..Len(o) : i < j => OrderDesc(MaxDate(fx, o[i]), MaxDate(fx, o[j]))}
\* fetch_chat_rows: the statement's rows under one of those orders
fetch_chat_rows(order, limit, offset) == SqlLimitOffset(order, limit, offset)

\* fetch_last_messages_map: rn = 1 of ROW_NUMBER() OVER (PARTITION BY chat_id
\* ORDER BY m.date DESC); the entry is absent for a chat without message
last_message_time(fx, chat_id) ==
    LET ms   == MessagesOfChat(fx, chat_id)
        last == CHOOSE m \in ms : \A n \in ms : n.date <= m.date
    IN  IF ms = {} THEN None ELSE Some(time_ms(last.date))
Chat(fx, chat_id) == [id |-> chat_id, last_message_time |-> last_message_time(fx, chat_id)]

\* fetch_chats over the archive fx, the listing statement answering in order
fetch_chats(fx, order, limit, offset) ==
    LET total     == Cardinality(fx.chats)
        chat_rows == fetch_chat_rows(order, limit, offset)
        chats     == [i \in 1..Len(chat_rows) |-> Chat(fx, chat_rows[i])]
    IN  IF chat_rows = <<>>
        THEN [chats |-> <<>>, total |-> total, has_more |-> FALSE]
        ELSE [chats |-> chats, total |-> total,
              has_more |-> HasMore(offset, Len(chats), total)]

\* get_contact_name: the cached name of a handle, if the context database
\* holds a non-empty one
get_contact_name(fx, handle) ==
    LET named == {r \in fx.contacts : r.handle = handle /\ r.display_name # <<>>}
    IN  IF named = {} THEN None ELSE Some((CHOOSE r \in named : TRUE).display_name)
\* handles.first() of every chat: fetch_handles_map keeps the handles of a
\* chat in the order the statement returns them, which it orders by chat id
\* only, so any handle of the chat may come first; a chat without handle has
\* none.
FirstHandles(fx) ==
    {f \in [{c.ROWID : c \in fx.chats} ->
                {None} \cup {Some(h) : h \in UNION {c.handles : c \in fx.chats}}] :
        \A c \in fx.chats :
            IF c.handles = {} THEN f[c.ROWID] = None
            ELSE f[c.ROWID] # None /\ Unwrap(f[c.ROWID]) \in c.handles}
\* missing_handles: the HashSet filled while the Chat objects are built, from
\* the first handle of each chat when that handle has no cached name
missing_handles(fx, chat_ids, first) ==
    {Unwrap(first[id]) : id \in {c \in chat_ids : first[c] # None
                                     /\ get_contact_name(fx, Unwrap(first[c])) = None}}
\* contact_resolve_tx.try_send(handle) with the result ignored: a full queue
\* drops the handle
try_send(queue, handle) ==
    IF Len(queue) < RESOLVE_CAPACITY THEN Append(queue, handle) ELSE queue
RECURSIVE TrySendAll(_, _)
TrySendAll(queue, handles) ==
    IF handles = <<>> THEN queue
    ELSE TrySendAll(try_send(queue, Head(handles)), Tail(handles))
\* for handle in missing_handles { try_send }: the set is walked in the
\* arbitrary order of a HashSet
OfferMissing(missing) ==
    \E sends \in Perms(missing) :
        contact_resolve_queue' = TrySendAll(contact_resolve_queue, sends)
ChatIdsOf(chats) == {chats[i].id : i \in 1..Len(chats)}

\* GET /chats?limit&offset
ListChats(limit, offset) ==
    /\ \E order \in ChatOrders(fixture), first \in FirstHandles(fixture) :
           LET out     == fetch_chats(fixture, order, limit, offset)
               missing == missing_handles(fixture, ChatIdsOf(out.chats), first)
           IN  /\ resp' = [op |-> "list", limit |-> limit, offset |-> offset,
                           out |-> out, offered |-> missing]
               /\ OfferMissing(missing)
    /\ UNCHANGED <<liveVars, queryVars, cacheVars, resolve_worker>>

\* A client pages through the listing with page size L: the first request
\* asks for offset 0, each further one for offset k * L, until k * L reaches
\* the total.
ListNextPage(L) ==
    LET walking == resp.op = "list_pages" /\ resp.limit = L
                   /\ Len(resp.pages) * L < Cardinality(fixture.chats)
        k       == IF walking THEN Len(resp.pages) ELSE 0
        before  == IF walking THEN resp.pages ELSE <<>>
    IN  /\ \E order \in ChatOrders(fixture), first \in FirstHandles(fixture) :
               LET out     == fetch_chats(fixture, order, L, k * L)
                   missing == missing_handles(fixture, ChatIdsOf(out.chats), first)
               IN  /\ resp' = [op |-> "list_pages", limit |-> L,
                               pages |-> Append(before, out)]
                   /\ OfferMissing(missing)
        /\ UNCHANGED <<liveVars, queryVars, cacheVars, resolve_worker>>

NextList ==
    \/ \E limit \in 0..MaxLimit, offset \in 0..MaxOffset : ListChats(limit, offset)
    \/ \E L \in 1..MaxLimit : ListNextPage(L)
SpecList == InitQuery /\ [][NextList]_vars

\* ids of the chats of one listing response, in order
IdsOf(out) == [i \in 1..Len(out.chats) |-> out.chats[i].id]
NoDuplicate(s) == \A i, j \in 1..Len(s) : s[i] = s[j] => i = j

C12_Reported(chat) ==
    LET ms == {m \in fixture.messages : m.chat_id = chat.id}
    IN  IF ms = {} THEN chat.last_message_time = None
        ELSE \E m \in ms :
                 /\ \A n \in ms : n.date <= m.date
                 /\ chat.last_message_time = Some(time_ms(m.date))
C12_NewestFirst ==
    resp.op = "list" =>
        LET chats == resp.out.chats
        IN  /\ \A i \in 1..Len(chats) : C12_Reported(chats[i])
            /\ \A i, j \in 1..Len(chats) :
                   i < j =>
                       \/ chats[j].last_message_time = None
                       \/ /\ chats[i].last_message_time # None
                          /\ TimeLe(Unwrap(chats[j].last_message_time),
                                    Unwrap(chats[i].last_message_time))
C12_Witness ==
    /\ resp.op = "list"
    /\ Len(resp.out.chats) = 3
    /\ resp.out.chats[1].last_message_time = Some(time_ms(3000000))
    /\ resp.out.chats[2].last_message_time = Some(time_ms(1000000))
    /\ resp.out.chats[3].last_message_time = None

\* ------------------------------------------------------------ chats by ids
\* id lists of a request: existing and missing ids, repeated or not
IdLists == SeqsUpTo(1..(NumChats + 1), MaxIds)

\* One row for every occurrence of an existing id in the list.
ByIdsRowsPerOccurrence(fx, chat_ids) ==
    {SelectSeq(chat_ids, LAMBDA id : id \in {c.ROWID : c \in fx.chats})}
\* SELECT ROWID, .. FROM chat WHERE ROWID IN (?, ..): the matching rows, once
\* each, in an order the statement does not fix
ByIdsRows(fx, chat_ids) ==
    Perms({c.ROWID : c \in fx.chats} \cap Range(chat_ids))

\* fetch_chats_by_ids, the first statement answering chat_rows; queries
\* counts the statements run against the archive (chats, handles, last
\* messages)
fetch_chats_by_ids(fx, chat_ids, chat_rows) ==
    IF chat_ids = <<>> THEN [chats |-> <<>>, queries |-> 0]
    ELSE IF chat_rows = <<>> THEN [chats |-> <<>>, queries |-> 1]
    ELSE [chats |-> [i \in 1..Len(chat_rows) |-> Chat(fx, chat_rows[i])], queries |-> 3]

\* POST /chats/by-ids: an empty list is answered before the context
\* database and the pool are touched
GetChatsByIds(ids) ==
    /\ \/ /\ ids = <<>>
          /\ resp' = [op |-> "by_ids", ids |-> ids,
                      out |-> [chats |-> <<>>, queries |-> 0], offered |-> {}]
          /\ UNCHANGED contact_resolve_queue
       \/ /\ ids # <<>>
          /\ \E chat_rows \in ByIdsRows(fixture, ids), first \in FirstHandles(fixture) :
                 LET out     == fetch_chats_by_ids(fixture, ids, chat_rows)
                     missing == missing_handles(fixture, ChatIdsOf(out.chats), first)
                 IN  /\ resp' = [op |-> "by_ids", ids |-> ids, out |-> out,
                                 offered |-> missing]
                     /\ OfferMissing(missing)
    /\ UNCHANGED <<liveVars, queryVars, cacheVars, resolve_worker>>

NextByIds == \E ids \in IdLists : GetChatsByIds(ids)
SpecByIds == InitQuery /\ [][NextByIds]_vars

\* C13: the by-ids response holds one chat for every distinct requested id
\* that exists, no chat twice and none that was not requested or does not
\* exist; for an empty list it is empty and no statement was run.
C13_ExactlyTheRequested ==
    resp.op = "by_ids" =>
        /\ NoDuplicate(IdsOf(resp.out))
        /\ Range(IdsOf(resp.out)) = Range(resp.ids) \cap {c.ROWID : c \in fixture.chats}
        /\ resp.ids = <<>> => (resp.out.chats = <<>> /\ resp.out.queries = 0)
C13_Witness ==
    /\ resp.op = "by_ids"
    /\ resp.ids = <<1, 1>>
    /\ IdsOf(resp.out) = <<1>>
    /\ 2 \in {c.ROWID : c \in fixture.chats}

\* -------------------------------------------------------- message listing
APPLE_EPOCH == 978307200
NANOS_PER_SEC == 1000000000
\* convert_apple_time: (APPLE_EPOCH + nanoseconds / 1_000_000_000) * 1000,
\* for nanoseconds >= 0, in the two limbs used for time_ms
convert_apple_time(nanoseconds) ==
    LET seconds == APPLE_EPOCH + nanoseconds \div NANOS_PER_SEC
    IN  [hi |-> seconds \div 1000, lo |-> (seconds % 1000) * 1000]

\* The row filter without its condition on the association type.
NonReactionUnfiltered(m) == TRUE
\* m.associated_message_type = 0 OR m.associated_message_type IS NULL
NonReaction(m) == m.associated_message_type \in {None, Some(0)}

PlainRows(fx, chat_id) == {m \in MessagesOfChat(fx, chat_id) : NonReaction(m)}
\* The result orders ORDER BY m.date DESC allows for the filtered rows.
MessageOrders(fx, chat_id) ==
    {o \in Perms(PlainRows(fx, chat_id)) :
        \A i, j \in 1..Len(o) : i < j => o[i].date >= o[j].date}
Message(row) == [id |-> row.ROWID, time |-> convert_apple_time(row.date)]

\* fetch_messages over the archive fx, the row statement answering in order
fetch_messages(fx, chat_id, order, limit, offset) ==
    LET total  == Cardinality(PlainRows(fx, chat_id))
        rows   == SqlLimitOffset(order, limit, offset)
        result == Reverse([i \in 1..Len(rows) |-> Message(rows[i])])
    IN  [messages |-> result, total |-> total,
         has_more |-> HasMore(offset, Len(result), total)]

\* GET /chats/:id/messages?limit&offset
ListMessages(chat_id, limit, offset) ==
    /\ \E order \in MessageOrders(fixture, chat_id) :
           resp' = [op |-> "messages", chat_id |-> chat_id, limit |-> limit,
                    offset |-> offset,
                    out |-> fetch_messages(fixture, chat_id, order, limit, offset)]
    /\ UNCHANGED <<liveVars, queryVars, cacheVars, resolveVars>>

NextMessages ==
    \E chat_id \in 1..(NumChats + 1), limit \in 0..MaxLimit, offset \in 0..MaxOffset :
        ListMessages(chat_id, limit, offset)
SpecMessages == InitQuery /\ [][NextMessages]_vars

\* C15: a message listing holds exactly the rows of that chat with
\* association type 0 or NULL that stand at positions offset ..
\* offset + limit - 1 of a newest-first order, presented oldest first with
\* non-decreasing time; no tapback or removal row (2000-2005, 3000-3005) is
\* among them; total counts the rows with type 0 or NULL only.
C15_Plain ==
    {m \in fixture.messages :
        m.chat_id = resp.chat_id /\ m.associated_message_type \in {None, Some(0)}}
C15_Row(msg) == CHOOSE m \in fixture.messages : m.ROWID = msg.id
C15_OldestFirstWindow ==
    resp.op = "messages" =>
        LET R == resp.out.messages
            n == Len(R)
        IN  /\ resp.out.total = Cardinality(C15_Plain)
            /\ n = Max(0, Min(resp.limit, Cardinality(C15_Plain) - resp.offset))
            /\ \A i \in 1..n :
                   /\ \E m \in C15_Plain : m.ROWID = R[i].id
                   /\ ~\E m \in fixture.messages :
                          /\ m.ROWID = R[i].id
                          /\ m.associated_message_type \in
                                 {Some(ty) : ty \in (2000..2005) \cup (3000..3005)}
            /\ \A i, j \in 1..n : R[i].id = R[j].id => i = j
            /\ \A i, j \in 1..n :
                   i < j => /\ C15_Row(R[i]).date <= C15_Row(R[j]).date
                            /\ TimeLe(R[i].time, R[j].time)
            /\ \A i \in 1..n :
                   LET k == resp.offset + (n - i + 1)
                       d == C15_Row(R[i]).date
                   IN  /\ Cardinality({m \in C15_Plain : m.date > d}) <= k - 1
                       /\ Cardinality({m \in C15_Plain : m.date >= d}) >= k
C15_Witness ==
    /\ resp.op = "messages"
    /\ resp.chat_id = 1 /\ resp.limit = 2 /\ resp.offset = 1
    /\ Cardinality(MessagesOfChat(fixture, 1)) = 4
    /\ resp.out.total = 3
    /\ Len(resp.out.messages) = 2
    /\ resp.out.messages[1].id = 1
    /\ resp.out.messages[2].id = 2
    /\ resp.out.has_more = FALSE

\* ------------------------------------------------------------------ search
PERCENT == 37        \* '%'
UNDERSCORE == 95     \* '_'
\* str::to_lowercase and SQL LOWER on ASCII text
to_lowercase(s) == [k \in 1..Len(s) |-> IF 65 <= s[k] /\ s[k] <= 90 THEN s[k] + 32 ELSE s[k]]

RECURSIVE Like(_, _)
\* SQL: s LIKE pattern.  '%' stands for any run of characters, '_' for any
\* one character, every other character for itself in either case.
Like(pattern, s) ==
    IF pattern = <<>> THEN s = <<>>
    ELSE IF Head(pattern) = PERCENT
    THEN \E k \in 0..Len(s) : Like(Tail(pattern), SubSeq(s, k + 1, Len(s)))
    ELSE /\ s # <<>>
         /\ \/ Head(pattern) = UNDERSCORE
            \/ to_lowercase(<<Head(pattern)>>) = to_lowercase(<<Head(s)>>)
         /\ Like(Tail(pattern), Tail(s))
\* format!("%{}%", query.to_lowercase())
query_pattern(query) == <<PERCENT>> \o to_lowercase(query) \o <<PERCENT>>
\* COALESCE(x, '')
Coalesce(x) == IF x = None THEN <<>> ELSE Unwrap(x)

should_search_contacts_by_name(query) ==
    LET trimmed == trim(query)
        cs      == chars(trimmed)
    IN  /\ Len(trimmed) >= 2
        /\ \E k \in 1..Len(cs) : is_alphabetic(cs[k].cp)
\* ContextDb::search_cached_contacts_by_name: the handles of the named contacts
search_cached_contacts_by_name(fx, query) ==
    {c.handle : c \in {r \in fx.contacts :
                          /\ r.display_name # <<>>
                          /\ Like(query_pattern(query), to_lowercase(r.display_name))}}
\* rows of the handle table
HandleIds(fx) == UNION {c.handles : c \in fx.chats}
find_contact_handles_by_name(fx, query) ==
    search_cached_contacts_by_name(fx, query)
    \cup {h \in HandleIds(fx) : Like(query_pattern(query), to_lowercase(h))}
\* contact_handles of fetch_search_chats: the name-to-handle lookup
contact_handles(fx, query) ==
    LET cached == search_cached_contacts_by_name(fx, query)
    IN  IF ~should_search_contacts_by_name(to_lowercase(query)) THEN {}
        ELSE IF cached # {} THEN cached
        ELSE find_contact_handles_by_name(fx, query)

\* The WHERE clause over chat LEFT JOIN chat_handle_join LEFT JOIN handle,
\* grouped by chat: a chat without participant has one row with h.id NULL.
SearchRows(fx, query) ==
    LET p == query_pattern(query)
        looked_up == contact_handles(fx, query)
    IN  {c \in fx.chats :
            \/ Like(p, to_lowercase(Coalesce(c.display_name)))
            \/ Like(p, to_lowercase(Coalesce(c.chat_identifier)))
            \/ \E h \in c.handles : Like(p, to_lowercase(h))
            \/ (c.handles = {} /\ Like(p, <<>>))
            \/ c.handles \cap looked_up # {}}
\* b.last_message_time.cmp(&a.last_message_time) allows a before b
TimeDesc(a, b) == b = None \/ (a # None /\ TimeLe(Unwrap(b), Unwrap(a)))
\* chats.sort_by(..) over rows that arrive in an order the statement does
\* not fix
SearchOrders(fx, rows) ==
    {o \in Perms({c.ROWID : c \in rows}) :
        \A i, j \in 1..Len(o) :
            i < j => TimeDesc(last_message_time(fx, o[i]), last_message_time(fx, o[j]))}
\* fetch_search_chats with the sorted chats standing in order
fetch_search_chats(fx, query, limit, order) ==
    LET chats == [i \in 1..Len(order) |-> Chat(fx, order[i])]
    IN  [chats |-> IF Len(chats) > limit THEN SubSeq(chats, 1, limit) ELSE chats,
         query |-> query]

\* GET /search?q&limit
SearchChats(q, limit) ==
    /\ \/ /\ Len(trim(q)) < 1
          /\ resp' = [op |-> "search", q |-> q, limit |-> limit,
                      out |-> [chats |-> <<>>, query |-> q]]
       \/ /\ Len(trim(q)) >= 1
          /\ \E order \in SearchOrders(fixture, SearchRows(fixture, q)) :
                 resp' = [op |-> "search", q |-> q, limit |-> limit,
                          out |-> fetch_search_chats(fixture, q, limit, order)]
    /\ UNCHANGED <<liveVars, queryVars, cacheVars, resolveVars>>

\* 'a', 'A', 'l', '_', '%', ' '
QueryBytes == {97, 65, 108, 95, 37, 32}
Queries == SeqsUpTo(QueryBytes, MaxQueryLen) \ {<<>>}

\* The archives with at most one message per chat, all of type 0.
InitSearch ==
    /\ InitQuery
    /\ \A m \in fixture.messages : m.ROWID \in {1, 4}

NextSearch == \E q \in Queries, limit \in 0..MaxLimit : SearchChats(q, limit)
SpecSearch == InitSearch /\ [][NextSearch]_vars

\* text holds q as a substring, letters compared without regard to case and
\* every character of q standing for itself
C14_ContainsLiterally(text, q) ==
    \E k \in 0..(Len(text) - Len(q)) :
        to_lowercase(SubSeq(text, k + 1, k + Len(q))) = to_lowercase(q)
\* C14: every chat of a search response has the query as a case-insensitive
\* literal substring of its display name, its chat identifier or one of its
\* participant handles, or has a participant handle that the contact
\* name-to-handle lookup returned for the query.
C14_OnlyMatchingChats ==
    resp.op = "search" =>
        \A i \in 1..Len(resp.out.chats) :
            LET c == CHOOSE row \in fixture.chats : row.ROWID = resp.out.chats[i].id
            IN  \/ c.display_name # None /\ C14_ContainsLiterally(Unwrap(c.display_name), resp.q)
                \/ c.chat_identifier # None
                   /\ C14_ContainsLiterally(Unwrap(c.chat_identifier), resp.q)
                \/ \E h \in c.handles : C14_ContainsLiterally(h, resp.q)
                \/ \E h \in c.handles : h \in contact_handles(fixture, resp.q)

\* -------------------------------------------------------- suggestion cache
\* The task spawned in main:
\*   while let Ok(_event) = suggestion_cache_rx.recv().await { cache.clear() }
\* recv gives the next event: the cache is emptied.  (The lock is never
\* poisoned here: no handler panics while holding it.)
ClearerRecv ==
    /\ suggestion_cache_rx.pc = "running"
    /\ HubRecv(suggestion_cache_rx.next).kind = "Ok"
    /\ suggestion_cache_rx' = [pc |-> "running", next |-> HubRecv(suggestion_cache_rx.next).n]
    /\ suggestion_cache' = [c \in ChatIds |-> None]
    /\ UNCHANGED <<liveVars, resp, queryVars, suggest_task, resolveVars>>
\* recv gives Err(Lagged(n)): the pattern Ok(_event) does not match, the
\* loop and with it the task end.
ClearerLagged ==
    /\ suggestion_cache_rx.pc = "running"
    /\ HubRecv(suggestion_cache_rx.next).kind = "Lagged"
    /\ suggestion_cache_rx' = [suggestion_cache_rx EXCEPT !.pc = "exited"]
    /\ UNCHANGED <<liveVars, resp, queryVars, suggestion_cache, suggest_task, resolveVars>>

\* A suggestion request for chat c: a fresh entry is used as it is; without
\* one (none, or older than SUGGESTION_CACHE_TTL) the recent messages are
\* read and stored.  The entry is stamped with the number of events
\* broadcast so far.
SuggestRequest(c, fresh) ==
    /\ suggestion_cache[c] = None \/ ~fresh
    /\ suggestion_cache' = [suggestion_cache EXCEPT ![c] = Some(Len(hub))]
    /\ UNCHANGED <<liveVars, resp, queryVars, suggestion_cache_rx, suggest_task, resolveVars>>

\* The server after HUB_CAPACITY archive changes were broadcast, no client
\* connected, the clearer not scheduled since it subscribed.
InitCache ==
    /\ store = [c \in ChatIds |-> IF c = 42 THEN HUB_CAPACITY ELSE 0]
    /\ fsClock = HUB_CAPACITY
    /\ dbMtime = Some(0)
    /\ walMtime = Some(HUB_CAPACITY)
    /\ nowMs = 0
    /\ watchPc = "init"
    /\ debPending = {}
    /\ debTimer = 0
    /\ fileRx = <<>>
    /\ asyncCh = 0
    /\ pollPc = "sleep"
    /\ last_modified = Some(HUB_CAPACITY)
    /\ hub = [i \in 1..HUB_CAPACITY |-> 0]
    /\ pc = [s \in Sessions |-> "absent"]
    /\ db_rx = [s \in Sessions |-> 0]
    /\ subscribed_chat = [s \in Sessions |-> None]
    /\ recv_task = [s \in Sessions |-> "none"]
    /\ cur = [s \in Sessions |-> NoCur]
    /\ sent = [s \in Sessions |-> <<>>]
    /\ lagged = [s \in Sessions |-> 0]
    /\ lastControl = [s \in Sessions |-> None]
    /\ evBursts = 0
    /\ evSignals = 0
    /\ evEvents = 0
    /\ pollSignals = HUB_CAPACITY
    /\ owed = [s \in Sessions |-> None]
    /\ joinedAt = [s \in Sessions |-> 0]
    /\ resp = NoResp
    /\ fixture = EmptyFixture
    /\ ColdCache
    /\ IdleResolver

NextCache ==
    \/ ArchiveWriteB(HUB_CAPACITY + LagExtra, 42, "chat.db-wal", FALSE)
    \/ PollCheck
    \/ BroadcastB(HUB_CAPACITY + LagExtra)
    \/ ClearerRecv
    \/ ClearerLagged
    \/ \E fresh \in BOOLEAN : SuggestRequest(7, fresh)

\* Every task of the runtime keeps being scheduled.
FairnessCache ==
    /\ WF_vars(PollCheck)
    /\ WF_vars(BroadcastB(HUB_CAPACITY + LagExtra))
    /\ WF_vars(ClearerRecv)
    /\ WF_vars(ClearerLagged)

SpecCache == InitCache /\ [][NextCache]_vars /\ FairnessCache

\* C19: for every n, once the n-th change event has been broadcast the
\* cache eventually holds no entry stored before that event.
C19_EveryEventClears ==
    \A n \in 1..(HUB_CAPACITY + LagExtra) :
        (Len(hub) >= n) ~>
            (\A c \in ChatIds :
                 suggestion_cache[c] = None \/ Unwrap(suggestion_cache[c]) >= n)

\* ------------------------------------------------- poll source on its own
\* The archive is written through either file and the sidecar may be removed
\* while only the poll task observes it (no filesystem watch is delivering).
NextPoll ==
    \/ \E file \in {"chat.db", "chat.db-wal"} :
           ArchiveWriteB(MaxWrites, 42, file, FALSE)
    \/ WalRemoved
    \/ PollStart
    \/ PollCheck
    \/ BroadcastB(MaxTicks)

SpecPoll == Init /\ [][NextPoll]_vars

\* C21: the first poll never places a signal on the handoff channel, whatever
\* the modification times of chat.db and of chat.db-wal are when it runs.
C21_FirstPollSilent ==
    [][(pollPc = "first" /\ pollPc' = "sleep") => asyncCh' = asyncCh]_vars

\* C22: at a poll after the first, a sidecar value that differs from the
\* observed one (the sidecar appearing or disappearing included) places
\* exactly one signal and becomes the observed value; an equal value places
\* none and leaves the observed value as it is.
C22_ChangeEmitsOnce ==
    [][(pollPc = "sleep" /\ PollCheck) =>
           IF walMtime # last_modified
           THEN asyncCh' = asyncCh + 1 /\ last_modified' = walMtime
           ELSE asyncCh' = asyncCh /\ last_modified' = last_modified]_vars

\* C23 as stated: the watcher thread places a signal for a batch exactly when
\* the batch names the main file chat.db itself; a batch naming only other
\* files of the directory places none.
C23_OnlyMainFile ==
    [][WatcherLoop =>
           IF "chat.db" \in Head(fileRx)
           THEN asyncCh' = asyncCh + 1
           ELSE asyncCh' = asyncCh]_vars

\* C23: the watcher thread places one signal for a batch exactly when some
\* path of the batch contains "chat.db" (the main file or one of its
\* sidecars, such as chat.db-wal); a batch without such a path places none.
C23_PathContainsName ==
    [][WatcherLoop =>
           IF \E p \in Head(fileRx) : PathContainsChatDb(p)
           THEN asyncCh' = asyncCh + 1
           ELSE asyncCh' = asyncCh]_vars
\* The only archive event delivered was a write to the sidecar, and its batch
\* was turned into a signal.
C23_Witness ==
    /\ dbMtime = Some(0)
    /\ walMtime = Some(1)
    /\ evEvents = 1
    /\ evSignals = 1
    /\ fileRx = <<>>
    /\ debPending = {}

\* ------------------------------------------------------- handoff channel
\* The watcher after HANDOFF_CAPACITY - 2 writes through the sidecar, each
\* delivered in a batch of its own and signalled by the event source, and
\* one poll that saw the last of them: HANDOFF_CAPACITY - 1 signals wait on
\* the handoff channel because the broadcast loop has not been scheduled yet.
InitHandoff ==
    /\ store = [c \in ChatIds |-> IF c = 42 THEN HANDOFF_CAPACITY - 2 ELSE 0]
    /\ fsClock = HANDOFF_CAPACITY - 2
    /\ dbMtime = Some(0)
    /\ walMtime = Some(HANDOFF_CAPACITY - 2)
    /\ nowMs = 0
    /\ watchPc = "running"
    /\ debPending = {}
    /\ debTimer = 0
    /\ fileRx = <<>>
    /\ asyncCh = HANDOFF_CAPACITY - 1
    /\ pollPc = "sleep"
    /\ last_modified = Some(HANDOFF_CAPACITY - 2)
    /\ hub = <<>>
    /\ pc = [s \in Sessions |-> "absent"]
    /\ db_rx = [s \in Sessions |-> 0]
    /\ subscribed_chat = [s \in Sessions |-> None]
    /\ recv_task = [s \in Sessions |-> "none"]
    /\ cur = [s \in Sessions |-> NoCur]
    /\ sent = [s \in Sessions |-> <<>>]
    /\ lagged = [s \in Sessions |-> 0]
    /\ lastControl = [s \in Sessions |-> None]
    /\ evBursts = HANDOFF_CAPACITY - 2
    /\ evSignals = HANDOFF_CAPACITY - 2
    /\ evEvents = HANDOFF_CAPACITY - 2
    /\ pollSignals = 1
    /\ owed = [s \in Sessions |-> None]
    /\ joinedAt = [s \in Sessions |-> 0]
    /\ resp = NoResp
    /\ fixture = EmptyFixture
    /\ ColdCache
    /\ IdleResolver

NextHandoff ==
    \/ \E delivered \in BOOLEAN :
           ArchiveWriteB(HANDOFF_CAPACITY - 2 + HandoffExtra, 42, "chat.db-wal", delivered)
    \/ Elapse
    \/ DebounceFire
    \/ WatcherLoop
    \/ PollCheck
    \/ BroadcastB(HANDOFF_CAPACITY + 2 * HandoffExtra)

SpecHandoff == InitHandoff /\ [][NextHandoff]_vars

\* C24: the watcher neither merges nor drops signals.  Every archive batch
\* the event source has taken and every change the poll source has recorded
\* against a known value has placed one signal; every signal placed is on the
\* handoff channel or has been broadcast as one ChangeEvent, so a change seen
\* by both sources makes two; the channel never holds more than
\* HANDOFF_CAPACITY signals, and a source that finds it full keeps its signal
\* until there is room.
C24_Accounted ==
    /\ Len(hub) + asyncCh = evSignals + pollSignals
    /\ evSignals + ArchiveBatchesQueued = evBursts
    /\ asyncCh <= HANDOFF_CAPACITY
C24_Step ==
    /\ Len(hub') # Len(hub) =>
           /\ hub' = Append(hub, nowMs)
           /\ asyncCh' = asyncCh - 1
    /\ asyncCh' < asyncCh => Len(hub') = Len(hub) + 1
    /\ (fileRx # <<>> /\ fileRx' = Tail(fileRx)) =>
           asyncCh' = asyncCh + SignalsForBatch(Head(fileRx))
    /\ (last_modified # None /\ last_modified' # last_modified) =>
           asyncCh' = asyncCh + 1
C24_NoDropNoDedup == [](C24_Accounted) /\ [][C24_Step]_vars
\* The write made after the snapshot was seen by the poll source, whose signal
\* filled the channel, and by the event source, whose batch waits for room.
C24_Witness ==
    /\ asyncCh = HANDOFF_CAPACITY
    /\ fsClock = HANDOFF_CAPACITY - 1
    /\ pollSignals = 2
    /\ evSignals = HANDOFF_CAPACITY - 2
    /\ fileRx = <<{"chat.db-wal"}>>
    /\ hub = <<>>

\* C25: after a failed setup of the event source the poll task is still in
\* its loop, the handoff channel is open and start_file_watcher has not
\* returned; all signals come from the poll source, and every one of them is
\* eventually broadcast as a ChangeEvent.
C25_OnlyEventSourceStops ==
    /\ [](watchPc = "failed" =>
            /\ pollPc \in {"init", "first", "sleep"}
            /\ HandoffSenders # {}
            /\ ~WatcherReturned
            /\ evSignals = 0
            /\ Len(hub) + asyncCh = pollSignals)
    /\ \A n \in 1..FairTicks :
           (watchPc = "failed" /\ pollSignals >= n) ~> (Len(hub) >= n)
\* Setup failed, and two changes the poll source detected were broadcast.
C25_Witness ==
    /\ watchPc = "failed"
    /\ fsClock = 2
    /\ pollSignals = 2
    /\ Len(hub) = 2
    /\ last_modified = walMtime

\* ------------------------------------------------ offers to the resolver
\* One listing or by-ids request, made while the context database holds the
\* name of handle "c" or no name at all, and while the resolver's queue is
\* empty, has one free slot or is full.
InitOffer ==
    /\ Booted
    /\ resp = NoResp
    /\ \E fx \in Fixtures, contacts \in {{}, ContactRows} :
           /\ fx.messages \subseteq {m \in MessageRows : m.ROWID \in {1, 4}}
           /\ fixture = [fx EXCEPT !.contacts = contacts]
    /\ ColdCache
    /\ \/ IdleResolver
       \/ /\ contact_resolve_queue \in {Backlog(RESOLVE_CAPACITY - 1),
                                        Backlog(RESOLVE_CAPACITY)}
          /\ resolve_worker = [pc |-> "lookup", handle |-> Some(<<98>>), last_emit |-> 0,
                             resolved |-> FALSE]

FirstRequest(request) == resp = NoResp /\ request
NextOffer ==
    \/ \E limit \in 0..MaxLimit, offset \in 0..MaxOffset :
           FirstRequest(ListChats(limit, offset))
    \/ \E ids \in IdLists : FirstRequest(GetChatsByIds(ids))

SpecOffer == InitOffer /\ [][NextOffer]_vars

\* C26: when a listing or by-ids call has returned, every handle of every
\* returned chat that has no cached contact name has been offered to the
\* resolver's queue, and nothing else has; the call has returned whatever
\* room the queue had, and the queue holds at most RESOLVE_CAPACITY handles.
C26_EveryUncachedHandleOffered ==
    resp.op \in {"list", "by_ids"} =>
        LET returned == {c \in fixture.chats : c.ROWID \in ChatIdsOf(resp.out.chats)}
            uncached == {h \in UNION {c.handles : c \in returned} :
                            get_contact_name(fixture, h) = None}
        IN  /\ resp.offered = uncached
            /\ Len(contact_resolve_queue) <= RESOLVE_CAPACITY

\* ------------------------------------------------- contact-resolve worker
\* rx.recv().await gives the next handle.  (The queue cannot close: AppState
\* keeps a sender.)
ResolveRecv ==
    /\ resolve_worker.pc = "recv"
    /\ contact_resolve_queue # <<>>
    /\ resolve_worker' = [resolve_worker EXCEPT !.pc = "lookup",
                                                !.handle = Some(Head(contact_resolve_queue))]
    /\ contact_resolve_queue' = Tail(contact_resolve_queue)
    /\ UNCHANGED <<liveVars, resp, queryVars, cacheVars>>

\* The name the Contacts application gives for a handle it knows: "N".
LookedUpName == <<78>>
\* get_contact_name_from_applescript inside spawn_blocking: None when the
\* context database cannot be opened; the cached name when there is one;
\* otherwise the answer of the Contacts application, which is cached when it
\* is a name.
Lookups == {"open_err", "known", "unknown"}
lookup_result(fx, handle, lookup) ==
    IF lookup = "open_err" THEN None
    ELSE IF get_contact_name(fx, handle) # None THEN get_contact_name(fx, handle)
    ELSE IF lookup = "known" THEN Some(LookedUpName)
    ELSE None
\* set_cached_contact_name for the handle and its normalized variants (the
\* handles here are lower-case and hold no digit: the only variant is the
\* handle itself)
lookup_cache(fx, handle, lookup) ==
    IF lookup = "known" /\ get_contact_name(fx, handle) = None
    THEN [fx EXCEPT !.contacts =
              {r \in @ : r.handle # handle}
                  \cup {[handle |-> handle, display_name |-> LookedUpName]}]
    ELSE fx

\* The throttle without its interval test.
emit_dueAlways(now, last_emit) == TRUE
\* now.duration_since(last_emit) >= emit_interval
emit_due(now, last_emit) == now - last_emit >= EMIT_INTERVAL_MS

\* The rest of one iteration: the lookup ends, and a change event is sent if
\* a name was found and the last one was sent at least 5 s ago.
ResolveDone(lookup) ==
    /\ resolve_worker.pc = "lookup"
    /\ LET handle   == Unwrap(resolve_worker.handle)
           resolved == lookup_result(fixture, handle, lookup)
           emits    == resolved # None /\ emit_due(nowMs, resolve_worker.last_emit)
       IN  /\ fixture' = lookup_cache(fixture, handle, lookup)
           /\ hub' = IF emits THEN Append(hub, nowMs) ELSE hub
           /\ resolve_worker' =
                  [pc |-> "recv", handle |-> None,
                   last_emit |-> IF emits THEN nowMs ELSE resolve_worker.last_emit,
                   resolved |-> resolved # None]
    /\ UNCHANGED <<archiveVars, nowMs, watchVars, asyncCh, pollVars, sessVars,
                   ghostVars, resp, cacheVars, contact_resolve_queue>>

\* Time passes for the worker.
ResolveElapse ==
    /\ nowMs < ResolveMaxMs
    /\ nowMs' = nowMs + ResolveStepMs
    /\ UNCHANGED <<archiveVars, watchVars, asyncCh, pollVars, hub, sessVars,
                   ghostVars, resp, queryVars, cacheVars, resolveVars>>

\* The worker has just started and earlier requests have left some handles of
\* a group chat in its queue; the context database knows "c" or nobody.
InitResolve ==
    /\ Booted
    /\ resp = NoResp
    /\ \E contacts \in {{}, ContactRows} :
           fixture = [chats |-> {ChatRow(2)}, messages |-> {}, contacts |-> contacts]
    /\ ColdCache
    /\ contact_resolve_queue \in SeqsUpTo({<<98>>, <<99>>}, MaxBacklog)
    /\ resolve_worker = WorkerStart

NextResolve ==
    \/ ResolveRecv
    \/ \E lookup \in Lookups : ResolveDone(lookup)
    \/ ResolveElapse

SpecResolve == InitResolve /\ [][NextResolve]_vars

\* C27: any two change events of the worker are at least 5 s apart, and the
\* worker sends one only at the end of a lookup that gave a name.
C27_Spaced ==
    \A i, j \in 1..Len(hub) : i < j => hub[j] - hub[i] >= EMIT_INTERVAL_MS
C27_OnlyAfterName ==
    Len(hub') # Len(hub) =>
        /\ resolve_worker.pc = "lookup"
        /\ resolve_worker'.resolved
        /\ hub' = Append(hub, nowMs)
C27_ThrottledAndResolved == [](C27_Spaced) /\ [][C27_OnlyAfterName]_vars
\* The worker announced one name 5 s after it started and another 5 s later,
\* and its queue is empty again.
C27_Witness ==
    /\ hub = <<5000, 10000>>
    /\ nowMs = 10000
    /\ contact_resolve_queue = <<>>
    /\ resolve_worker.pc = "recv"
    /\ resolve_worker.resolved

\* ------------------------------------- suggestion request against the clearer
\* The suggestion handler holds the cache lock only while it looks the entry
\* up and, separately, while it inserts; the archive is read in between with
\* no lock held.  First step of a request for chat c that finds no fresh
\* entry: the recent messages are read from the archive.  The request
\* remembers how many events had been broadcast and which version of the
\* chat it read.
SuggestFetch(c, fresh) ==
    /\ suggest_task.pc = "idle"
    /\ suggestion_cache[c] = None \/ ~fresh
    /\ suggest_task' = [pc |-> "fetched", chat_id |-> c,
                        read_at |-> Len(hub), version |-> store[c]]
    /\ UNCHANGED <<liveVars, resp, queryVars, suggestion_cache,
                   suggestion_cache_rx, resolveVars>>

\* Second step: the lock is taken again and the list that was read is
\* inserted, whatever happened to the cache in the meantime.
SuggestInsert ==
    /\ suggest_task.pc = "fetched"
    /\ suggestion_cache' = [suggestion_cache EXCEPT
                               ![suggest_task.chat_id] = Some(suggest_task.read_at)]
    /\ suggest_task' = [suggest_task EXCEPT !.pc = "idle"]
    /\ UNCHANGED <<liveVars, resp, queryVars, suggestion_cache_rx, resolveVars>>

NextRace ==
    \/ ArchiveWriteB(MaxWrites, 42, "chat.db-wal", FALSE)
    \/ PollStart
    \/ PollCheck
    \/ BroadcastB(MaxTicks)
    \/ ClearerRecv
    \/ \E fresh \in BOOLEAN : SuggestFetch(42, fresh)
    \/ SuggestInsert

SpecRace == Init /\ [][NextRace]_vars

\* C28: once the clearer has processed a change event, the suggestion cache
\* holds no message list that was read from the archive before that event
\* was broadcast: every entry was read when at least as many events had been
\* broadcast as the clearer has processed.
C28_NoEntryOlderThanClear ==
    \A c \in ChatIds :
        suggestion_cache[c] # None =>
            Unwrap(suggestion_cache[c]) >= suggestion_cache_rx.next

\* ------------------------------------------- the two timestamp conversions
TimeStepNs == 25000000
MaxTimeSteps == 80
\* Stored dates from 2001-01-01 00:00:00 on, TimeStepNs apart: whole seconds
\* and instants inside a second.
StoredDates == {k * TimeStepNs : k \in 0..MaxTimeSteps}

\* A message stored with date ns is reported once as its chat's last message
\* (fetch_last_messages_map) and once as a listed message (fetch_messages).
ConvertDate ==
    /\ Calling("convert_apple_time")
    /\ resp' = [op |-> "converted", ns |-> resp.arg,
                last_message_time |-> time_ms(resp.arg),
                time |-> convert_apple_time(resp.arg)]
    /\ UNCHANGED <<liveVars, queryVars, cacheVars, resolveVars>>

NextTime == ConvertDate
SpecTime == InitCall("convert_apple_time", StoredDates) /\ [][NextTime]_vars

\* C29: for every stored timestamp, the Unix-millisecond value reported as
\* the chat's last_message_time equals the value reported as the message's
\* time by the message listing.
C29_ConversionsAgree ==
    resp.op = "converted" => resp.last_message_time = resp.time

\* ------------------------------------------------ chat completion with retry
MaxRetries == 3
DeepRetries == 65
RetryAfterSecs == 7
U64_BITS == 64
\* max_retries of a call: the small counts the callers pass (3 and 2) and one
\* large enough for the backoff exponent to leave the u64 range.
RetryCounts == (0..MaxRetries) \cup {DeepRetries}

\* What one chat_completion call can come back with.  Ok and the errors that
\* carry a message are tagged with the attempt that produced them;
\* RateLimited carries the Retry-After header, if the server sent a number.
Outcomes(attempt) ==
    {[kind |-> k, val |-> Some(attempt)] :
         k \in {"Ok", "RequestFailed", "ApiError", "ParseError"}}
    \cup {[kind |-> "NoApiKey", val |-> None]}
    \cup {[kind |-> "RateLimited", val |-> r] :
              r \in {None, Some(0), Some(RetryAfterSecs)}}
Retryable(outcome) == outcome.kind \in {"RateLimited", "RequestFailed"}

\* 2u64.pow(attempt): the power while it fits in 64 bits; beyond that a panic
\* where overflow checks are compiled in, the wrapped product 0 where not.
pow_u64(attempt) ==
    IF attempt < U64_BITS
    THEN {[panic |-> FALSE, secs |-> None, exp |-> Some(attempt)]}
    ELSE {[panic |-> TRUE,  secs |-> None, exp |-> None],
          [panic |-> FALSE, secs |-> Some(0), exp |-> None]}
\* retry_after.unwrap_or(2u64.pow(attempt)): the argument is evaluated
\* whether or not the header was present.  RequestFailed always takes the power.
wait_secs(outcome, power) ==
    IF outcome.kind = "RateLimited" /\ outcome.val # None
    THEN [panic |-> power.panic, secs |-> outcome.val, exp |-> None]
    ELSE power

\* The call on entry: last_error = RequestFailed("No attempts made").
RetryCall(n) ==
    [op |-> "retry", max_retries |-> n, attempt |-> 0, pc |-> "attempt",
     last_error |-> [kind |-> "RequestFailed", val |-> None],
     attempts |-> 0, last_outcome |-> [kind |-> "none", val |-> None],
     wait |-> None, result |-> None]

\* One iteration of for attempt in 0..=max_retries up to its return or its
\* sleep: chat_completion is awaited and its result matched.
RetryAttempt(outcome) ==
    /\ resp.op = "retry"
    /\ resp.pc = "attempt"
    /\ resp.attempt <= resp.max_retries
    /\ outcome \in Outcomes(resp.attempt)
    /\ LET made == [resp EXCEPT !.attempts = @ + 1, !.last_outcome = outcome]
       IN  IF ~Retryable(outcome) \/ resp.attempt = resp.max_retries
           THEN resp' = [made EXCEPT !.pc = "returned", !.result = Some(outcome)]
           ELSE \E power \in pow_u64(resp.attempt) :
                    LET wait == wait_secs(outcome, power)
                    IN  resp' = IF wait.panic
                                THEN [made EXCEPT !.pc = "panicked"]
                                ELSE [made EXCEPT !.pc = "sleep", !.wait = Some(wait)]
    /\ UNCHANGED <<liveVars, queryVars, cacheVars, resolveVars>>

\* The sleep ends: last_error is assigned and the range yields the next
\* attempt; an exhausted range falls through to Err(last_error).
RetryWake ==
    /\ resp.op = "retry"
    /\ resp.pc = "sleep"
    /\ LET woke == [resp EXCEPT !.last_error = resp.last_outcome,
                                !.attempt = @ + 1, !.wait = None]
       IN  resp' = IF woke.attempt <= woke.max_retries
                   THEN [woke EXCEPT !.pc = "attempt"]
                   ELSE [woke EXCEPT !.pc = "returned",
                                     !.result = Some(woke.last_error)]
    /\ UNCHANGED <<liveVars, queryVars, cacheVars, resolveVars>>

InitRetry ==
    /\ Booted
    /\ resp \in {RetryCall(n) : n \in RetryCounts}
    /\ fixture = EmptyFixture
    /\ ColdCache
    /\ IdleResolver

NextRetry ==
    \/ \E outcome \in Outcomes(resp.attempt) : RetryAttempt(outcome)
    \/ RetryWake

SpecRetry == InitRetry /\ [][NextRetry]_vars /\ WF_vars(NextRetry)

\* What the call has done so far: at most max_retries + 1 attempts, every
\* earlier one rate-limited or request-failed, no end other than a return,
\* and a returned value that is the result of the last attempt.
C30_Returned ==
    resp.op = "retry" =>
        /\ resp.attempts <= resp.max_retries + 1
        /\ resp.pc \in {"attempt", "sleep", "returned"}
        /\ resp.pc # "returned" =>
               /\ resp.attempts = resp.attempt + (IF resp.pc = "sleep" THEN 1 ELSE 0)
               /\ resp.attempts > 0 => Retryable(resp.last_outcome)
        /\ resp.pc = "returned" =>
               /\ resp.result = Some(resp.last_outcome)
               /\ resp.attempts = resp.attempt + 1
               /\ Retryable(resp.last_outcome) =>
                      resp.attempts = resp.max_retries + 1
====
